---- MODULE Spec2Model ----
(***************************************************************************)
(* Model of the load driver of esrally (src/esrally/driver/driver.py):     *)
(* the Allocator, the coordinator (DriverActor / Driver), the workers      *)
(* (LoadGenerator), the Executor thread of each worker and the Sampler.    *)
(* Client indices are 0-based as in the source; a row of the allocation    *)
(* matrix is a sequence, so the source's tasks[i] is tasks[i + 1] here.    *)
(***************************************************************************)
EXTENDS Integers, Sequences, FiniteSets, TLC

(***************************************************************************)
(* Bounds of the model.                                                    *)
(***************************************************************************)
MaxClients == 2        \* largest `clients` of a task or of a parallel element
MaxGroups == 2         \* largest number of elements of a schedule
MaxSubTasks == 2       \* largest number of sub-tasks of a parallel element
MaxEternal == 2        \* schedule tuples of an eternal task that are unrolled
MaxIterations == 2     \* largest warmup_iterations and iterations of a task
MaxPeriod == 2         \* largest warmup_time_period and time_period of a task
MaxTime == 5           \* largest reading of the clock
MaxSkewTime == 2       \* largest reading of the master's clock before the release
MaxLate == 1           \* longest time observed after start_next_task
MaxOffset == 1         \* largest offset of a worker's clock from the master's
WaitingPeriod == 5     \* waiting_period outside test mode
MaxPushes == 3         \* most calls of Sampler.add next to a drain
MaxAdds == 4           \* most calls of Sampler.add on a queue close to its capacity
MaxFree == 3           \* most free places of that queue at the start
MaxExcess == 1         \* most excess reports of a barrier in a run
MaxHosts == 2          \* most load driver hosts, each with a track preparator
MaxAbsoluteTime == 2   \* largest absolute_time of a sample, in ticks
MaxSamples == 2        \* most samples of one worker that are post-processed
TicksPerSecond == 2    \* the ticks of the sample times in a second

QueueMaxSize == 16384  \* Sampler: queue.Queue(maxsize=16384)

VARIABLES
    schedule,    \* challenge.schedule: the sequence of (parallel) elements
    driver,      \* fields of Driver and DriverActor (the coordinator)
    lg,          \* fields of each LoadGenerator (the workers)
    executor,    \* the Executor running on the pool thread of each worker
    inbox,       \* messages coordinator -> worker, FIFO
    wakeups,     \* pending WakeupMessages of each worker
    toMaster,    \* messages worker -> coordinator, FIFO per worker
    toStarter,   \* messages the coordinator has sent to start_sender
    hist,        \* history of the run (observation only)
    clock,       \* time.perf_counter() of the coordinator's host
    call,        \* locals of one Executor.__call__ over a time-period schedule
    skew,        \* timestamps of one barrier: clock offsets, reports, Drives
    sampling     \* locals of one Sampler.samples call and of the adds around it

vars == <<schedule, driver, lg, executor, inbox, wakeups, toMaster, toStarter, hist,
          clock, call, skew, sampling>>

Max(a, b) == IF a >= b THEN a ELSE b

(***************************************************************************)
(* Cells of the allocation matrix.  A task instance is identified by its   *)
(* position in the schedule (element index, sub-task index).               *)
(***************************************************************************)
JoinPoint(id, clients_executing_completing_task) ==
    [type |-> "JoinPoint", id |-> id,
     clients_executing_completing_task |-> clients_executing_completing_task]

TaskCell(g, s) == [type |-> "Task", group |-> g, sub |-> s]

NoneCell == [type |-> "None"]

IsJoinPoint(cell) == cell.type = "JoinPoint"
IsTask(cell) == cell.type = "Task"
IsNone(cell) == cell.type = "None"

preceding_task_completes_parent(jp) == Len(jp.clients_executing_completing_task) > 0

TaskOf(sched, cell) == sched[cell.group].tasks[cell.sub]

(***************************************************************************)
(* Allocator                                                               *)
(***************************************************************************)
RECURSIVE ClientsLoop(_, _)
ClientsLoop(sched, n) ==
    IF n = 0 THEN 1 ELSE Max(ClientsLoop(sched, n - 1), sched[n].clients)

AllocatorClients(sched) == ClientsLoop(sched, Len(sched))

\* the loop over the clients of a sub-task, recording client_index instead of
\* final_client_index in clients_executing_completing_task
RECURSIVE AssignSubTaskRawIndex(_, _, _, _, _)
AssignSubTaskRawIndex(st, cell, completes_parent, client_index, stop) ==
    IF client_index >= stop THEN st
    ELSE LET final_client_index == client_index % st.max_clients
             st1 == [st EXCEPT
                       !.allocations[final_client_index] = Append(@, cell),
                       !.cc = IF completes_parent THEN Append(@, client_index) ELSE @]
         IN  AssignSubTaskRawIndex(st1, cell, completes_parent, client_index + 1, stop)

\* for client_index in range(start_client_index, start_client_index + sub_task.clients)
RECURSIVE AssignSubTask(_, _, _, _, _)
AssignSubTask(st, cell, completes_parent, client_index, stop) ==
    IF client_index >= stop THEN st
    ELSE LET final_client_index == client_index % st.max_clients
             st1 == [st EXCEPT
                       !.allocations[final_client_index] = Append(@, cell),
                       !.cc = IF completes_parent THEN Append(@, final_client_index) ELSE @]
         IN  AssignSubTask(st1, cell, completes_parent, client_index + 1, stop)

\* the loop over the sub-tasks without start_client_index += sub_task.clients
RECURSIVE AssignSubTasksNoAdvance(_, _, _, _)
AssignSubTasksNoAdvance(st, sched, g, s) ==
    IF s > Len(sched[g].tasks) THEN st
    ELSE LET sub_task == sched[g].tasks[s]
             st1 == AssignSubTask(st, TaskCell(g, s), sub_task.completes_parent,
                                  st.start_client_index,
                                  st.start_client_index + sub_task.clients)
         IN  AssignSubTasksNoAdvance(st1, sched, g, s + 1)

\* for sub_task in task
RECURSIVE AssignSubTasks(_, _, _, _)
AssignSubTasks(st, sched, g, s) ==
    IF s > Len(sched[g].tasks) THEN st
    ELSE LET sub_task == sched[g].tasks[s]
             st1 == AssignSubTask(st, TaskCell(g, s), sub_task.completes_parent,
                                  st.start_client_index,
                                  st.start_client_index + sub_task.clients)
             st2 == [st1 EXCEPT !.start_client_index = @ + sub_task.clients]
         IN  AssignSubTasks(st2, sched, g, s + 1)

\* FillNone without the wrap-around of the client index: pads only while the
\* element has fewer sub-task clients than there are rows
FillNoneNoWrap(st) ==
    IF st.start_client_index < st.max_clients
    THEN [st EXCEPT !.allocations =
             [c \in DOMAIN @ |->
                 IF c >= st.start_client_index THEN Append(@[c], NoneCell) ELSE @[c]]]
    ELSE st

\* if start_client_index % max_clients > 0: append None to the remaining rows
FillNone(st) ==
    IF st.start_client_index % st.max_clients > 0
    THEN LET start == st.start_client_index % st.max_clients
         IN  [st EXCEPT !.allocations =
                 [c \in DOMAIN @ |-> IF c >= start THEN Append(@[c], NoneCell) ELSE @[c]]]
    ELSE st

\* the join point is appended only to the rows that were not padded with None
AppendJoinPointBusyRows(st) ==
    [st EXCEPT !.allocations =
                  [c \in DOMAIN @ |->
                      IF Len(@[c]) > 0 /\ IsNone(@[c][Len(@[c])]) THEN @[c]
                      ELSE Append(@[c], JoinPoint(st.join_point_id, st.cc))],
               !.join_point_id = @ + 1]

\* let all clients join after each task: the same JoinPoint for every client
AppendJoinPoint(st) ==
    [st EXCEPT !.allocations =
                  [c \in DOMAIN @ |-> Append(@[c], JoinPoint(st.join_point_id, st.cc))],
               !.join_point_id = @ + 1]

\* for task in self.schedule
RECURSIVE AllocateFrom(_, _, _)
AllocateFrom(st, sched, g) ==
    IF g > Len(sched) THEN st
    ELSE LET st0 == [st EXCEPT !.start_client_index = 0, !.cc = <<>>]
             st1 == AssignSubTasks(st0, sched, g, 1)
             st2 == FillNone(st1)
             st3 == AppendJoinPoint(st2)
         IN  AllocateFrom(st3, sched, g + 1)

AllocatorAllocations(sched) ==
    LET max_clients == AllocatorClients(sched)
        st0 == [max_clients |-> max_clients,
                allocations |-> [c \in 0 .. max_clients - 1 |-> <<>>],
                join_point_id |-> 0,
                start_client_index |-> 0,
                cc |-> <<>>]
        st1 == AppendJoinPoint(st0)
    IN  AllocateFrom(st1, sched, 1).allocations

AllocatorJoinPoints(sched) ==
    SelectSeq(AllocatorAllocations(sched)[0], IsJoinPoint)


(***************************************************************************)
(* Messages                                                                *)
(***************************************************************************)
StartLoadGenerator(client_id, tasks) ==
    [type |-> "StartLoadGenerator", client_id |-> client_id, tasks |-> tasks]

Drive == [type |-> "Drive"]

CompleteCurrentTask == [type |-> "CompleteCurrentTask"]

ActorExitRequest == [type |-> "ActorExitRequest"]

JoinPointReached(client_id, task) ==
    [type |-> "JoinPointReached", client_id |-> client_id, task |-> task]

UpdateSamples(client_id, samples) ==
    [type |-> "UpdateSamples", client_id |-> client_id, samples |-> samples]

BenchmarkFailure(message) == [type |-> "BenchmarkFailure", message |-> message]

BenchmarkCancelled == [type |-> "BenchmarkCancelled"]

BenchmarkComplete == [type |-> "BenchmarkComplete"]

TaskFinished == [type |-> "TaskFinished"]

ChildActorExited(client_id) == [type |-> "ChildActorExited", client_id |-> client_id]

(***************************************************************************)
(* Schedule generator.  percent_completed is a fraction <<num, den>>; the  *)
(* denominator 0 stands for None (an eternal task has no progress).        *)
(***************************************************************************)
NoProgress == <<0, 0>>
FullProgress == <<1, 1>>
IsFull(p) == p[2] > 0 /\ p[1] = p[2]

\* schedule_for: iteration_count_based(warmup_iterations // num_clients, iterations // num_clients)
WarmupOf(task) == task.warmup_iterations \div task.clients

\* the total with the sum of both counts divided by the number of clients
TotalIterationsOfSum(task) ==
    (task.warmup_iterations + task.iterations) \div task.clients

TotalIterations(task) == WarmupOf(task) + (task.iterations \div task.clients)

\* the generator raises RallyAssertionError when asked for its first tuple
GeneratorRaises(task) == ~task.eternal /\ TotalIterations(task) = 0

\* the generator has no tuple left after `it` tuples
GeneratorExhausted(task, it) == ~task.eternal /\ it >= TotalIterations(task)

\* the number of tuples taken after tuple number `it`; the tuples of an
\* eternal task are counted up to MaxEternal
NextTuple(task, it) == IF task.eternal /\ it >= MaxEternal THEN it ELSE it + 1

\* the tuple number `it` (0-based): sample type and percent_completed
TupleSampleType(task, it) ==
    IF ~task.eternal /\ it < WarmupOf(task) THEN "Warmup" ELSE "Normal"

TuplePercentCompleted(task, it) ==
    IF task.eternal THEN NoProgress ELSE <<it + 1, TotalIterations(task)>>

(***************************************************************************)
(* Sampler                                                                 *)
(***************************************************************************)
NoSampler == [exists |-> FALSE, q |-> <<>>]
NewSampler == [exists |-> TRUE, q |-> <<>>]

\* a sample of a runner that returned without a weight: total_ops is 1 and
\* request_meta_data is {"success": True}
Sample(client_id, task, sample_type, percent_completed, no) ==
    [client_id |-> client_id, task |-> task, sample_type |-> sample_type,
     percent_completed |-> percent_completed, no |-> no,
     total_ops |-> 1, success |-> TRUE]

\* a queue without a capacity
SamplerAddUnbounded(sampler, sample) ==
    [sampler EXCEPT !.q = Append(@, sample)]

\* Sampler.add: put_nowait, the sample is dropped when the queue is full
SamplerAdd(sampler, sample) ==
    IF Len(sampler.q) < QueueMaxSize
    THEN [sampler EXCEPT !.q = Append(@, sample)]
    ELSE sampler

(***************************************************************************)
(* State after construction                                                *)
(***************************************************************************)
Workers == 0 .. AllocatorClients(schedule) - 1

JoinPointIds == 0 .. Len(schedule)

\* Driver.__init__ and DriverActor.__init__; start_benchmark has created the
\* metrics store and the track has been prepared on all hosts
InitDriver ==
    [allocations |-> <<>>,
     number_of_steps |-> 0,
     drivers |-> 0,
     currently_completed |-> 0,
     clients_completed_current_step |-> {},
     current_step |-> -1,
     complete_current_task_sent |-> FALSE,
     raw_samples |-> <<>>,
     metrics_store |-> "created",
     status |-> "init",
     actor |-> "alive"]

\* LoadGenerator.__init__
InitLoadGenerator ==
    [client_id |-> -1,
     tasks |-> <<>>,
     current_task_index |-> 0,
     current_task |-> NoneCell,
     cancel |-> FALSE,
     complete |-> FALSE,
     executor_future |-> "None",
     sampler |-> NoSampler,
     start_driving |-> FALSE,
     actor |-> "alive"]

\* no Executor has been submitted to the pool
InitExecutor ==
    [pc |-> "idle", task |-> NoneCell, it |-> 0, completed |-> NoProgress,
     exit |-> "none", error |-> FALSE]

InitHist ==
    [reported |-> [b \in JoinPointIds |-> {}],
     drives |-> [w \in Workers |-> 0],
     woken |-> [w \in Workers |-> 0],
     cct |-> [w \in Workers |-> [b \in JoinPointIds |-> 0]],
     finished_completing |-> {},
     after_sibling |-> [w \in Workers |-> 0],
     after_complete |-> [w \in Workers |-> 0],
     pushed |-> [w \in Workers |-> <<>>],
     gone |-> {},
     excess |-> 0]

\* no Executor.__call__, barrier or Sampler.samples call is looked at in detail
NoCall == [pc |-> "none"]
NoSkew == [pc |-> "none"]
NoSampling == [pc |-> "none"]

\* the coordinator and the workers after construction
InitProtocol ==
    /\ driver = InitDriver
    /\ lg = [w \in Workers |-> InitLoadGenerator]
    /\ executor = [w \in Workers |-> InitExecutor]
    /\ inbox = [w \in Workers |-> <<>>]
    /\ wakeups = [w \in Workers |-> 0]
    /\ toMaster = [w \in Workers |-> <<>>]
    /\ toStarter = <<>>
    /\ hist = InitHist

InitRest ==
    /\ InitProtocol
    /\ clock = 0
    /\ call = NoCall
    /\ skew = NoSkew
    /\ sampling = NoSampling

(***************************************************************************)
(* Schedules                                                               *)
(***************************************************************************)
Tasks(clientsSet, eternalSet, warmupSet, iterSet) ==
    [clients : clientsSet, completes_parent : BOOLEAN, eternal : eternalSet,
     warmup_iterations : warmupSet, iterations : iterSet]

SeqsUpTo(S, n) == UNION {[1 .. k -> S] : k \in 1 .. n}

Elements(taskSet, clientsSet) ==
    [clients : clientsSet, tasks : SeqsUpTo(taskSet, MaxSubTasks)]

\* elements with one task that is run by all clients of the element
PlainElements ==
    {[clients |-> c,
      tasks |-> <<[clients |-> c, completes_parent |-> FALSE, eternal |-> FALSE,
                   warmup_iterations |-> 0, iterations |-> c]>>] : c \in 1 .. MaxClients}

PlainSeqs == {<<>>} \cup SeqsUpTo(PlainElements, MaxGroups - 1)

\* the schedules the Allocator is applied to: any element (any number of
\* clients for the element and for each of its sub-tasks, any of which may
\* complete its parent), preceded and followed by plain elements
AllocatorSchedules ==
    {x[1] \o <<x[2]>> \o x[3] :
        x \in {y \in PlainSeqs
                       \X Elements(Tasks(1 .. MaxClients, {FALSE}, {0}, {1}), 1 .. MaxClients)
                       \X PlainSeqs :
                  Len(y[1]) + Len(y[3]) <= MaxGroups - 1}}

(***************************************************************************)
(* LoadGenerator (worker)                                                  *)
(***************************************************************************)
\* while task is None: task = self.current_task_and_advance()
RECURSIVE SkipNone(_, _)
SkipNone(tasks, i) ==
    IF i >= Len(tasks) THEN i
    ELSE IF IsNone(tasks[i + 1]) THEN SkipNone(tasks, i + 1) ELSE i

\* a worker that never takes itself to be at a join point
at_joinpointNever(g) == FALSE

at_joinpoint(g) == IsJoinPoint(g.current_task)

\* drains the sampler; a non-empty list of samples is sent to the master
send_samples(g) ==
    IF g.sampler.exists /\ Len(g.sampler.q) > 0
    THEN [sampler |-> [g.sampler EXCEPT !.q = <<>>],
          out |-> <<UpdateSamples(g.client_id, g.sampler.q)>>]
    ELSE [sampler |-> g.sampler, out |-> <<>>]

\* executor_future.result() at a join point waits for a running executor
drive_blocked(g) ==
    LET i == SkipNone(g.tasks, g.current_task_index)
    IN  /\ i < Len(g.tasks)
        /\ IsJoinPoint(g.tasks[i + 1])
        /\ g.executor_future = "running"

\* the state of the worker (g) and of its executor (e) after drive(), the
\* messages it sends to the master and whether it arms a wakeup
drive(g, e) ==
    LET i == SkipNone(g.tasks, g.current_task_index)
    IN  IF i >= Len(g.tasks)
        THEN \* IndexError, caught in receiveMessage
             [lg |-> [g EXCEPT !.current_task_index = i], ex |-> e,
              out |-> <<BenchmarkFailure("Fatal error in load generator")>>, wake |-> 0]
        ELSE LET task == g.tasks[i + 1]
                 g1 == [g EXCEPT !.current_task_index = i + 1, !.current_task = task]
             IN  IF IsJoinPoint(task)
                 THEN IF g1.executor_future = "failed"
                      THEN \* result() re-raises the executor's exception
                           [lg |-> g1, ex |-> e,
                            out |-> <<BenchmarkFailure("Fatal error in load generator")>>,
                            wake |-> 0]
                      ELSE LET ss == send_samples(g1)
                           IN  [lg |-> [g1 EXCEPT !.cancel = FALSE,
                                                  !.complete = FALSE,
                                                  !.executor_future = "None",
                                                  !.sampler = NoSampler],
                                ex |-> e,
                                out |-> ss.out \o <<JoinPointReached(g1.client_id, task)>>,
                                wake |-> 0]
                 ELSE IF g1.complete
                      THEN \* the task is skipped
                           [lg |-> g1, ex |-> e, out |-> <<>>, wake |-> 0]
                      ELSE [lg |-> [g1 EXCEPT !.sampler = NewSampler,
                                              !.executor_future = "running"],
                            ex |-> [InitExecutor EXCEPT !.pc = "loop", !.task = task],
                            out |-> <<>>, wake |-> 1]

\* a new executor starts: the per-executor counters of the history restart
HistAfterDrive(h, w, r) ==
    IF r.ex.pc = "loop" /\ executor[w].pc # "loop"
    THEN [h EXCEPT !.after_sibling[w] = 0, !.after_complete[w] = 0]
    ELSE h

CanReceive(w, type) ==
    /\ lg[w].actor = "alive"
    /\ inbox[w] # <<>>
    /\ Head(inbox[w]).type = type

\* receiveMessage: StartLoadGenerator
LGStartLoadGenerator(w) ==
    /\ CanReceive(w, "StartLoadGenerator")
    /\ LET msg == Head(inbox[w])
           g0 == [lg[w] EXCEPT !.client_id = msg.client_id,
                               !.tasks = msg.tasks,
                               !.current_task_index = 0,
                               !.cancel = FALSE,
                               !.current_task = NoneCell]
           r == drive(g0, executor[w])
       IN  /\ ~drive_blocked(g0)
           /\ lg' = [lg EXCEPT ![w] = r.lg]
           /\ executor' = [executor EXCEPT ![w] = r.ex]
           /\ toMaster' = [toMaster EXCEPT ![w] = @ \o r.out]
           /\ wakeups' = [wakeups EXCEPT ![w] = @ + r.wake]
           /\ hist' = HistAfterDrive(hist, w, r)
    /\ inbox' = [inbox EXCEPT ![w] = Tail(@)]
    /\ UNCHANGED <<clock, call, skew, sampling, schedule, driver, toStarter>>

\* receiveMessage: Drive
LGDrive(w) ==
    /\ CanReceive(w, "Drive")
    /\ lg' = [lg EXCEPT ![w].start_driving = TRUE]
    /\ wakeups' = [wakeups EXCEPT ![w] = @ + 1]
    /\ inbox' = [inbox EXCEPT ![w] = Tail(@)]
    /\ UNCHANGED <<clock, call, skew, sampling, schedule, driver, executor, toMaster, toStarter, hist>>

\* receiveMessage: CompleteCurrentTask
LGCompleteCurrentTask(w) ==
    /\ CanReceive(w, "CompleteCurrentTask")
    /\ lg' = [lg EXCEPT ![w].complete = IF at_joinpoint(lg[w]) THEN @ ELSE TRUE]
    /\ inbox' = [inbox EXCEPT ![w] = Tail(@)]
    /\ UNCHANGED <<clock, call, skew, sampling, schedule, driver, executor, wakeups, toMaster, toStarter, hist>>

\* self.executor_future is not None and self.executor_future.done()
FutureDone(g) == g.executor_future \in {"done", "failed"}

\* an exception of the executor that goes unnoticed
FutureExceptionIgnored(g) == FALSE

\* e = self.executor_future.exception(timeout=0); if e
FutureException(g) == g.executor_future = "failed"

\* receiveMessage: WakeupMessage without start_driving, after
\* current_samples = self.send_samples() has left the worker as g1 and sent
\* the messages out
WakeupAfterSamples(w, g1, out) ==
    IF g1.cancel
    THEN /\ lg' = [lg EXCEPT ![w] = g1]
         /\ toMaster' = [toMaster EXCEPT ![w] = @ \o out \o <<BenchmarkCancelled>>]
         /\ wakeups' = [wakeups EXCEPT ![w] = @ - 1]
         /\ UNCHANGED <<executor, hist>>
    ELSE IF FutureDone(g1) /\ FutureException(g1)
    THEN /\ lg' = [lg EXCEPT ![w] = g1]
         /\ toMaster' = [toMaster EXCEPT ![w] =
                @ \o out \o <<BenchmarkFailure("Error in load generator")>>]
         /\ wakeups' = [wakeups EXCEPT ![w] = @ - 1]
         /\ UNCHANGED <<executor, hist>>
    ELSE IF FutureDone(g1)
    THEN LET g2 == [g1 EXCEPT !.executor_future = "None"]
             r == drive(g2, executor[w])
         IN  /\ lg' = [lg EXCEPT ![w] = r.lg]
             /\ executor' = [executor EXCEPT ![w] = r.ex]
             /\ toMaster' = [toMaster EXCEPT ![w] = @ \o out \o r.out]
             /\ wakeups' = [wakeups EXCEPT ![w] = @ - 1 + r.wake]
             /\ hist' = HistAfterDrive(hist, w, r)
    ELSE /\ lg' = [lg EXCEPT ![w] = g1]
         /\ toMaster' = [toMaster EXCEPT ![w] = @ \o out]
         /\ wakeups' = wakeups   \* the wakeup is re-armed
         /\ UNCHANGED <<executor, hist>>

\* receiveMessage: WakeupMessage
LGWakeup(w) ==
    /\ lg[w].actor = "alive"
    /\ wakeups[w] > 0
    /\ IF lg[w].start_driving
       THEN LET g0 == [lg[w] EXCEPT !.start_driving = FALSE]
                r == drive(g0, executor[w])
            IN  /\ ~drive_blocked(g0)
                /\ lg' = [lg EXCEPT ![w] = r.lg]
                /\ executor' = [executor EXCEPT ![w] = r.ex]
                /\ toMaster' = [toMaster EXCEPT ![w] = @ \o r.out]
                /\ wakeups' = [wakeups EXCEPT ![w] = @ - 1 + r.wake]
                /\ hist' = [HistAfterDrive(hist, w, r) EXCEPT !.woken[w] = @ + 1]
       ELSE LET ss == send_samples(lg[w])
            IN  WakeupAfterSamples(w, [lg[w] EXCEPT !.sampler = ss.sampler], ss.out)
    /\ UNCHANGED <<clock, call, skew, sampling, schedule, driver, inbox, toStarter>>

\* the WakeupMessage handler of worker w up to and with
\* current_samples = self.send_samples(); the executor's thread runs on
\* before the handler reads the cancel event and the future
LGWakeupSendSamples(w) ==
    /\ lg[w].actor = "alive"
    /\ wakeups[w] > 0
    /\ ~lg[w].start_driving
    /\ call = [pc |-> "none"]
    /\ LET ss == send_samples(lg[w])
       IN  /\ lg' = [lg EXCEPT ![w].sampler = ss.sampler]
           /\ toMaster' = [toMaster EXCEPT ![w] = @ \o ss.out]
    /\ call' = [pc |-> "wakeup", client_id |-> w]
    /\ UNCHANGED <<clock, skew, sampling, schedule, driver, executor, inbox, wakeups, toStarter, hist>>

\* the rest of that handler
LGWakeupRest(w) ==
    /\ call = [pc |-> "wakeup", client_id |-> w]
    /\ WakeupAfterSamples(w, lg[w], <<>>)
    /\ call' = [pc |-> "none"]
    /\ UNCHANGED <<clock, skew, sampling, schedule, driver, inbox, toStarter>>

\* receiveMessage: ActorExitRequest; pool.shutdown() waits for the executor
LGActorExitRequest(w) ==
    /\ CanReceive(w, "ActorExitRequest")
    /\ lg' = [lg EXCEPT ![w].cancel = IF lg[w].executor_future = "running" THEN TRUE ELSE @,
                        ![w].actor = "exiting"]
    /\ inbox' = [inbox EXCEPT ![w] = Tail(@)]
    /\ hist' = [hist EXCEPT !.gone = IF at_joinpoint(lg[w]) THEN @ ELSE @ \cup {w}]
    /\ UNCHANGED <<clock, call, skew, sampling, schedule, driver, executor, wakeups, toMaster, toStarter>>

\* an ActorExitRequest that does not come from the coordinator reaches the
\* load generator (the actor system shuts the actor down)
LGExitRequested(w) ==
    /\ lg[w].actor = "alive"
    /\ driver.status # "exiting"
    /\ \A i \in 1 .. Len(inbox[w]) : inbox[w][i].type # "ActorExitRequest"
    /\ inbox' = [inbox EXCEPT ![w] = Append(@, ActorExitRequest)]
    /\ UNCHANGED <<clock, call, skew, sampling, schedule, driver, lg, executor, wakeups, toMaster, toStarter, hist>>

\* the actor has handled ActorExitRequest and exits; its parent is notified
LGExited(w) ==
    /\ lg[w].actor = "exiting"
    /\ lg[w].executor_future # "running"
    /\ lg' = [lg EXCEPT ![w].actor = "exited"]
    /\ toMaster' = [toMaster EXCEPT ![w] = Append(@, ChildActorExited(w))]
    /\ UNCHANGED <<clock, call, skew, sampling, schedule, driver, executor, inbox, wakeups, toStarter, hist>>

(***************************************************************************)
(* Executor.__call__ on the pool thread of worker w.  One step of the      *)
(* thread is one access to the state it shares with the actor thread (the  *)
(* cancel and complete events, the sampler queue, the future) together     *)
(* with the thread-local code around it.                                   *)
(***************************************************************************)
ExecTask(w) == TaskOf(schedule, executor[w].task)

\* the loop is left, and complete is set only when no exception was raised
ExecFinishNoFinally(w, exit, error) ==
    LET t == ExecTask(w)
    IN  /\ executor' = [executor EXCEPT ![w].pc = "idle", ![w].exit = exit,
                                        ![w].error = error]
        /\ lg' = [lg EXCEPT
               ![w].complete = IF t.completes_parent /\ ~error THEN TRUE ELSE @,
               ![w].executor_future = IF error THEN "failed" ELSE "done"]
        /\ hist' = [hist EXCEPT
               !.finished_completing =
                   IF t.completes_parent /\ ~error
                   THEN @ \cup {executor[w].task.group} ELSE @,
               !.gone = IF error THEN @ \cup {w} ELSE @]

\* the loop is left: `finally` sets complete if the task completes its
\* parent, and the future is done (with the exception, if one was raised)
ExecFinish(w, exit, error) ==
    LET t == ExecTask(w)
    IN  /\ executor' = [executor EXCEPT ![w].pc = "idle", ![w].exit = exit,
                                        ![w].error = error]
        /\ lg' = [lg EXCEPT
               ![w].complete = IF t.completes_parent THEN TRUE ELSE @,
               ![w].executor_future = IF error THEN "failed" ELSE "done"]
        /\ hist' = [hist EXCEPT
               !.finished_completing =
                   IF t.completes_parent /\ ~error
                   THEN @ \cup {executor[w].task.group} ELSE @,
               !.gone = IF error THEN @ \cup {w} ELSE @]

\* the next tuple of the schedule can be executed
ExecCanRun(w) ==
    LET e == executor[w]
        t == ExecTask(w)
    IN  /\ e.pc = "loop"
        /\ ~GeneratorRaises(t)
        /\ ~GeneratorExhausted(t, e.it)
        /\ ~lg[w].cancel

\* for ... in self.schedule: the generator raises or is exhausted, or cancel
\* is set; the loop is left
ExecLeave(w) ==
    /\ executor[w].pc = "loop"
    /\ LET e == executor[w]
           t == ExecTask(w)
       IN  IF GeneratorRaises(t) THEN ExecFinish(w, "error", TRUE)
           ELSE IF GeneratorExhausted(t, e.it) THEN ExecFinish(w, "exhausted", FALSE)
           ELSE /\ lg[w].cancel
                /\ ExecFinish(w, "cancel", FALSE)
    /\ UNCHANGED <<clock, call, skew, sampling, schedule, driver, inbox, wakeups, toMaster, toStarter>>

\* a transport error that is counted as one operation
execute_singleCountsError(outcome) ==
    [total_ops |-> 1, success |-> outcome # "TransportError"]

\* execute_single for a runner that returns ("ok") or raises
\* elasticsearch.TransportError: total_ops and request_meta_data["success"]
execute_single(outcome) ==
    IF outcome = "TransportError"
    THEN [total_ops |-> 0, success |-> FALSE]
    ELSE [total_ops |-> 1, success |-> TRUE]

\* the runner is invoked for the next tuple, and returns or raises a
\* transport error;
\* completed = percent_completed if not self.complete.is_set() else 1.0
\* and the sample is added to the sampler.  An eternal task goes on for
\* ever: its tuples after the MaxEternal-th are executed as well, but their
\* samples, which are all alike, are kept only once complete is set.
ExecRun(w, outcome) ==
    /\ ExecCanRun(w)
    /\ LET e == executor[w]
           t == ExecTask(w)
           result == execute_single(outcome)
           completed == IF lg[w].complete THEN FullProgress
                        ELSE TuplePercentCompleted(t, e.it)
           sample == [Sample(lg[w].client_id, e.task, TupleSampleType(t, e.it),
                             completed, NextTuple(t, e.it))
                         EXCEPT !.total_ops = result.total_ops,
                                !.success = result.success]
       IN  /\ executor' = [executor EXCEPT ![w].pc = "check",
                                           ![w].it = NextTuple(t, e.it),
                                           ![w].completed = completed]
           /\ lg' = [lg EXCEPT ![w].sampler =
                  IF t.eternal /\ e.it >= MaxEternal /\ ~lg[w].complete
                  THEN @ ELSE SamplerAdd(@, sample)]
           /\ hist' = [hist EXCEPT
                  !.pushed[w] =
                      IF t.eternal /\ e.it >= MaxEternal /\ ~lg[w].complete
                      THEN @ ELSE Append(@, sample),
                  !.after_sibling[w] =
                      IF e.task.group \in hist.finished_completing /\ @ < MaxEternal
                      THEN @ + 1 ELSE @,
                  !.after_complete[w] = IF lg[w].complete THEN @ + 1 ELSE @]
    /\ UNCHANGED <<clock, call, skew, sampling, schedule, driver, inbox, wakeups, toMaster, toStarter>>

\* the runner returns
ExecSample(w) == ExecRun(w, "ok")

\* the runner raises elasticsearch.TransportError
ExecTransportError(w) == ExecRun(w, "TransportError")

\* execute_single raises SystemSetupError (missing parameter)
ExecRaise(w) ==
    /\ ExecCanRun(w)
    /\ ExecFinish(w, "error", TRUE)
    /\ UNCHANGED <<clock, call, skew, sampling, schedule, driver, inbox, wakeups, toMaster, toStarter>>

\* the second read of complete, never breaking
ExecCheckNoBreak(w) ==
    /\ executor[w].pc = "check"
    /\ executor' = [executor EXCEPT ![w].pc = "loop"]
    /\ UNCHANGED <<lg, hist>>
    /\ UNCHANGED <<clock, call, skew, sampling, schedule, driver, inbox, wakeups, toMaster, toStarter>>

\* if self.complete.is_set(): break
ExecCheck(w) ==
    /\ executor[w].pc = "check"
    /\ IF lg[w].complete
       THEN ExecFinish(w, "complete", FALSE)
       ELSE /\ executor' = [executor EXCEPT ![w].pc = "loop"]
            /\ UNCHANGED <<lg, hist>>
    /\ UNCHANGED <<clock, call, skew, sampling, schedule, driver, inbox, wakeups, toMaster, toStarter>>

(***************************************************************************)
(* Driver and DriverActor (coordinator)                                    *)
(***************************************************************************)
Drivers == 0 .. driver.drivers - 1

SendToWorkers(box, ws, msg) ==
    [w \in DOMAIN box |-> IF w \in ws THEN Append(box[w], msg) ELSE box[w]]

\* Driver.finished, true one step early
finishedEarly(d) == d.current_step + 1 = d.number_of_steps

finished(d) == d.current_step = d.number_of_steps

\* Driver.close: `if self.metrics_store` raises once the attribute is deleted
close_raises(d) == d.metrics_store = "deleted"
\* a close that leaves the metrics store open
closeLeavesOpen(d) == d

close(d) == [d EXCEPT !.metrics_store = "closed"]

\* Driver.after_track_prepared: open the metrics store, allocate, create and
\* start the load generators
after_track_prepared ==
    LET allocations == AllocatorAllocations(schedule)
        n == AllocatorClients(schedule)
    IN  /\ driver' = [driver EXCEPT
               !.metrics_store = "open",
               !.allocations = allocations,
               !.number_of_steps = Len(AllocatorJoinPoints(schedule)) - 1,
               !.drivers = n]
        /\ inbox' = [w \in DOMAIN inbox |->
               IF w < n THEN Append(inbox[w], StartLoadGenerator(w, allocations[w]))
               ELSE inbox[w]]

\* the handler of the TrackPrepared of the last track preparator
AfterTrackPrepared ==
    /\ driver.actor = "alive"
    /\ driver.drivers = 0
    /\ driver.metrics_store = "created"
    /\ after_track_prepared
    /\ UNCHANGED <<clock, call, skew, sampling, schedule, lg, executor, wakeups, toMaster, toStarter, hist>>

MasterReceives(w, type) ==
    /\ driver.actor = "alive"
    /\ toMaster[w] # <<>>
    /\ Head(toMaster[w]).type = type

\* except BaseException in DriverActor.receiveMessage, for the state d that
\* the handler had reached when it raised
FatalException(d) ==
    IF close_raises(d)
    THEN \* close() raises again inside the except block
         /\ driver' = d
         /\ UNCHANGED <<inbox, toStarter>>
    ELSE /\ driver' = [close(d) EXCEPT !.status = "exiting"]
         /\ inbox' = SendToWorkers(inbox, 0 .. d.drivers - 1, ActorExitRequest)
         /\ toStarter' = Append(toStarter, BenchmarkFailure("Could not execute benchmark"))

\* the condition under which joinpoint_reached notifies the clients to
\* complete their current tasks
all_clients_finished(join_point, clients_completed) ==
    \A i \in 1 .. Len(join_point.clients_executing_completing_task) :
        join_point.clients_executing_completing_task[i] \in clients_completed

\* the condition without `and not self.complete_current_task_sent`
SendsCompleteCurrentTaskAgain(d, current_join_point) ==
    /\ preceding_task_completes_parent(current_join_point)
    /\ all_clients_finished(current_join_point, d.clients_completed_current_step)

SendsCompleteCurrentTask(d, current_join_point) ==
    /\ preceding_task_completes_parent(current_join_point)
    /\ ~d.complete_current_task_sent
    /\ all_clients_finished(current_join_point, d.clients_completed_current_step)

\* if self.currently_completed == len(self.drivers), released one report early
AllDriversReachedEarly(d) == d.currently_completed >= d.drivers - 1

\* if self.currently_completed == len(self.drivers)
AllDriversReached(d) == d.currently_completed = d.drivers

\* the reset for the next step without self.complete_current_task_sent = False
NextStepKeepsSent(d) ==
    [d EXCEPT !.currently_completed = 0,
              !.clients_completed_current_step = {},
              !.current_step = @ + 1,
              !.raw_samples = <<>>]

\* "we can go on to the next step": the per-step state is reset
NextStep(d) ==
    [d EXCEPT !.currently_completed = 0,
              !.complete_current_task_sent = FALSE,
              !.clients_completed_current_step = {},
              !.current_step = @ + 1,
              !.raw_samples = <<>>]

\* the samples of client c among samples
SamplesOf(samples, c) == SelectSeq(samples, LAMBDA sample : sample.client_id = c)

\* the pushed samples that the raw_samples of d do not hold
HistAfterNextStep(h, d) ==
    [h EXCEPT !.pushed =
        [c \in DOMAIN @ |->
            SubSeq(@[c], Len(SamplesOf(d.raw_samples, c)) + 1, Len(@[c]))]]

\* Driver.joinpoint_reached
JoinpointReached(w) ==
    /\ MasterReceives(w, "JoinPointReached")
    /\ toMaster' = [toMaster EXCEPT ![w] = Tail(@)]
    /\ LET msg == Head(toMaster[w])
           d0 == [driver EXCEPT
                     !.currently_completed = @ + 1,
                     !.clients_completed_current_step = @ \cup {msg.client_id}]
           h == [hist EXCEPT !.reported[msg.task.id] = @ \cup {msg.client_id}]
       IN  IF AllDriversReached(d0)
           THEN LET clients_curr_step == d0.clients_completed_current_step
                    d1 == NextStep(d0)
                    h0 == HistAfterNextStep(h, d0)
                IN  IF finished(d1)
                    THEN /\ driver' = [d1 EXCEPT !.metrics_store = "deleted"]
                         /\ toStarter' = Append(toStarter, BenchmarkComplete)
                         /\ hist' = h0
                         /\ UNCHANGED inbox
                    ELSE IF \A c \in 0 .. d1.drivers - 1 : c \in clients_curr_step
                    THEN /\ driver' = d1
                         /\ toStarter' = Append(toStarter, TaskFinished)
                         /\ inbox' = SendToWorkers(inbox, 0 .. d1.drivers - 1, Drive)
                         /\ hist' = [h0 EXCEPT !.drives =
                                [c \in DOMAIN @ |-> IF c < d1.drivers THEN @[c] + 1 ELSE @[c]]]
                    ELSE \* clients_curr_step[client_id] raises KeyError after
                         \* TaskFinished and the Drives of the clients before it
                         LET missing == CHOOSE c \in 0 .. d1.drivers - 1 :
                                           /\ c \notin clients_curr_step
                                           /\ \A b \in 0 .. c - 1 : b \in clients_curr_step
                             d2 == [close(d1) EXCEPT !.status = "exiting"]
                         IN  /\ driver' = d2
                             /\ toStarter' = toStarter \o
                                    <<TaskFinished, BenchmarkFailure("Could not execute benchmark")>>
                             /\ inbox' = SendToWorkers(
                                    SendToWorkers(inbox, 0 .. missing - 1, Drive),
                                    0 .. d1.drivers - 1, ActorExitRequest)
                             /\ hist' = [h0 EXCEPT !.drives =
                                    [c \in DOMAIN @ |-> IF c < missing THEN @[c] + 1 ELSE @[c]]]
           ELSE IF SendsCompleteCurrentTask(d0, msg.task)
           THEN /\ driver' = [d0 EXCEPT !.complete_current_task_sent = TRUE]
                /\ inbox' = SendToWorkers(inbox, 0 .. d0.drivers - 1, CompleteCurrentTask)
                /\ hist' = [h EXCEPT !.cct =
                       [c \in DOMAIN @ |->
                           IF c < d0.drivers
                           THEN [@[c] EXCEPT ![msg.task.id] = @ + 1] ELSE @[c]]]
                /\ UNCHANGED toStarter
           ELSE /\ driver' = d0
                /\ hist' = h
                /\ UNCHANGED <<inbox, toStarter>>
    /\ UNCHANGED <<clock, call, skew, sampling, schedule, lg, executor, wakeups>>

\* an update that puts the samples in front of the ones received before
UpdateSamplesReceivedInFront(w) ==
    /\ MasterReceives(w, "UpdateSamples")
    /\ toMaster' = [toMaster EXCEPT ![w] = Tail(@)]
    /\ driver' = [driver EXCEPT !.raw_samples = Head(toMaster[w]).samples \o @]
    /\ UNCHANGED <<clock, call, skew, sampling, schedule, lg, executor, inbox, wakeups, toStarter, hist>>

\* Driver.update_samples
UpdateSamplesReceived(w) ==
    /\ MasterReceives(w, "UpdateSamples")
    /\ toMaster' = [toMaster EXCEPT ![w] = Tail(@)]
    /\ driver' = [driver EXCEPT !.raw_samples = @ \o Head(toMaster[w]).samples]
    /\ UNCHANGED <<clock, call, skew, sampling, schedule, lg, executor, inbox, wakeups, toStarter, hist>>

\* a JoinPointReached of the current step from a load generator whose report
\* of that step the coordinator has already handled
ExcessJoinPointReached(w) ==
    /\ driver.actor = "alive"
    /\ hist.excess < MaxExcess
    /\ w \in driver.clients_completed_current_step
    /\ at_joinpoint(lg[w])
    /\ toMaster' = [toMaster EXCEPT ![w] = Append(@, JoinPointReached(w, lg[w].current_task))]
    /\ hist' = [hist EXCEPT !.excess = @ + 1]
    /\ UNCHANGED <<clock, call, skew, sampling, schedule, driver, lg, executor, inbox, wakeups, toStarter>>

\* DriverActor.receiveMessage: BenchmarkFailure or BenchmarkCancelled from a
\* load generator: close the coordinator and forward the message
FailureReceived(w) ==
    /\ \/ MasterReceives(w, "BenchmarkFailure")
       \/ MasterReceives(w, "BenchmarkCancelled")
    /\ toMaster' = [toMaster EXCEPT ![w] = Tail(@)]
    /\ IF close_raises(driver)
       THEN FatalException(driver)
       ELSE /\ driver' = close(driver)
            /\ toStarter' = Append(toStarter, Head(toMaster[w]))
            /\ UNCHANGED inbox
    /\ UNCHANGED <<clock, call, skew, sampling, schedule, lg, executor, wakeups, hist>>

\* DriverActor.receiveMessage: ChildActorExited of a load generator
ChildActorExitedReceived(w) ==
    /\ MasterReceives(w, "ChildActorExited")
    /\ toMaster' = [toMaster EXCEPT ![w] = Tail(@)]
    /\ toStarter' = IF driver.status = "exiting" THEN toStarter
                    ELSE Append(toStarter, BenchmarkFailure("Load generator has exited prematurely."))
    /\ UNCHANGED <<clock, call, skew, sampling, schedule, driver, lg, executor, inbox, wakeups, hist>>

\* DriverActor.receiveMessage: ActorExitRequest sent to the coordinator; the
\* actor exits when the handler returns
DriverActorExitRequest ==
    /\ driver.actor = "alive"
    /\ driver' = [driver EXCEPT !.status = "exiting", !.actor = "exited"]
    /\ inbox' = SendToWorkers(inbox, Drivers, ActorExitRequest)
    /\ UNCHANGED <<clock, call, skew, sampling, schedule, lg, executor, wakeups, toMaster, toStarter, hist>>

(***************************************************************************)
(* Track preparation.  start_benchmark has created one track preparator    *)
(* per load driver host and sent PrepareTrack to each; call holds the       *)
(* children and received_responses of the DriverActor, the preparators     *)
(* that have not handled PrepareTrack yet and their replies in flight.     *)
(***************************************************************************)
\* DriverActor after start_benchmark with the given number of hosts
InitPrepare(hosts) ==
    [pc |-> "prepare", hosts |-> hosts, children |-> hosts, received_responses |-> 0,
     preparing |-> hosts, track_prepared |-> 0, failures |-> 0,
     failed |-> 0, handled |-> 0, excess |-> 0]

\* TrackPreparationActor.receiveMessage: PrepareTrack; the preparation
\* succeeds (TrackPrepared) or raises (BenchmarkFailure)
PrepareTrackReceived(ok) ==
    /\ call.pc = "prepare"
    /\ call.preparing > 0
    /\ call' = [call EXCEPT !.preparing = @ - 1,
                            !.track_prepared = IF ok THEN @ + 1 ELSE @,
                            !.failures = IF ok THEN @ ELSE @ + 1,
                            !.failed = IF ok THEN @ ELSE @ + 1]
    /\ UNCHANGED <<clock, skew, sampling, schedule, driver, lg, executor, inbox, wakeups, toMaster, toStarter, hist>>

\* a transition at the first response
any_child_responded(response_count, expected_count) == response_count >= 1

\* if response_count == expected_count
all_children_responded(response_count, expected_count) == response_count = expected_count

\* DriverActor.receiveMessage: TrackPrepared, that is
\* transition_when_all_children_responded with after_track_prepared
TrackPreparedReceived ==
    /\ call.pc = "prepare"
    /\ driver.actor = "alive"
    /\ call.track_prepared > 0
    /\ LET response_count == call.received_responses + 1
           c == [call EXCEPT !.track_prepared = @ - 1, !.handled = @ + 1,
                             !.received_responses = response_count]
       IN  IF all_children_responded(response_count, call.children)
           THEN /\ call' = [c EXCEPT !.received_responses = 0, !.children = 0]
                /\ after_track_prepared
                /\ UNCHANGED toStarter
           ELSE IF response_count > call.children
           THEN \* RallyAssertionError
                /\ call' = c
                /\ FatalException(driver)
           ELSE /\ call' = c
                /\ UNCHANGED <<driver, inbox, toStarter>>
    /\ UNCHANGED <<clock, skew, sampling, schedule, lg, executor, wakeups, toMaster, hist>>

\* DriverActor.receiveMessage: BenchmarkFailure of a track preparator
PrepareFailureReceived ==
    /\ call.pc = "prepare"
    /\ driver.actor = "alive"
    /\ call.failures > 0
    /\ call' = [call EXCEPT !.failures = @ - 1]
    /\ IF close_raises(driver)
       THEN FatalException(driver)
       ELSE /\ driver' = close(driver)
            /\ toStarter' = Append(toStarter, BenchmarkFailure("Could not prepare track"))
            /\ UNCHANGED inbox
    /\ UNCHANGED <<clock, skew, sampling, schedule, lg, executor, wakeups, toMaster, hist>>

\* a TrackPrepared beyond the expected ones is sent to the DriverActor
ExcessTrackPrepared ==
    /\ call.pc = "prepare"
    /\ driver.actor = "alive"
    /\ call.handled >= call.hosts
    /\ call.excess < MaxExcess
    /\ call' = [call EXCEPT !.track_prepared = @ + 1, !.excess = @ + 1]
    /\ UNCHANGED <<clock, skew, sampling, schedule, driver, lg, executor, inbox, wakeups, toMaster, toStarter, hist>>

(***************************************************************************)
(* One Executor.__call__ over the schedule of time_period_based, step by   *)
(* step: every reading of time.perf_counter() is a step of its own, and    *)
(* the clock advances between the steps.  Times are whole clock units.     *)
(***************************************************************************)
protocolVars ==
    <<schedule, driver, lg, executor, inbox, wakeups, toMaster, toStarter, hist>>

\* time passes
Tick ==
    /\ clock < MaxTime
    /\ clock' = clock + 1
    /\ UNCHANGED <<protocolVars, call, skew, sampling>>

\* the locals of Executor.__call__ and of the generator before the call
InitCall(warmup_time_period, time_period) ==
    [pc |-> "total_start",
     warmup_time_period |-> warmup_time_period, time_period |-> time_period,
     total_start |-> 0, start |-> 0, end |-> 0, next_scheduled |-> 0, now |-> 0,
     sample_type |-> "Normal", percent_completed |-> NoProgress,
     expected_scheduled_time |-> 0, sleep_until |-> 0,
     runner_start |-> 0, stop |-> 0,
     has_sample |-> FALSE, sample_offset |-> 0, service_time |-> 0, latency |-> 0]

CallStep(pc) ==
    /\ call.pc = pc
    /\ UNCHANGED <<protocolVars, clock, skew, sampling>>

\* total_start = time.perf_counter()
CallTotalStart ==
    /\ CallStep("total_start")
    /\ call' = [call EXCEPT !.pc = "gen_start", !.total_start = clock]

\* the generator runs up to its loop: next_scheduled = 0,
\* start = time.perf_counter(), end = start + warmup_time_period + time_period
GenStart ==
    /\ CallStep("gen_start")
    /\ call' = [call EXCEPT !.pc = "while", !.next_scheduled = 0, !.start = clock,
                            !.end = clock + call.warmup_time_period + call.time_period]

\* while time.perf_counter() < end; otherwise the schedule is exhausted and
\* the call returns
GenWhile ==
    /\ CallStep("while")
    /\ call' = [call EXCEPT !.pc = IF clock < call.end THEN "now" ELSE "done"]

\* now = time.perf_counter(); the tuple is yielded to the executor
GenYield ==
    /\ CallStep("now")
    /\ call' = [call EXCEPT
           !.pc = "rest",
           !.now = clock,
           !.sample_type = IF clock - call.start < call.warmup_time_period
                           THEN "Warmup" ELSE "Normal",
           !.percent_completed =
               <<clock - call.start, call.warmup_time_period + call.time_period>>,
           !.expected_scheduled_time = call.next_scheduled]

\* if throughput_throttled: rest = absolute_expected_schedule_time -
\* time.perf_counter(); if rest > 0: time.sleep(rest)
ExecRest ==
    /\ CallStep("rest")
    /\ LET absolute_expected_schedule_time ==
               call.total_start + call.expected_scheduled_time
           rest == absolute_expected_schedule_time - clock
       IN  call' = IF call.expected_scheduled_time > 0 /\ rest > 0
                   THEN [call EXCEPT !.pc = "sleep", !.sleep_until = clock + rest]
                   ELSE [call EXCEPT !.pc = "start"]

\* a sleep that may return before the time has passed
ExecSleepEarly ==
    /\ CallStep("sleep")
    /\ call' = [call EXCEPT !.pc = "start"]

\* time.sleep(rest) returns when at least rest has passed
ExecSleep ==
    /\ CallStep("sleep")
    /\ clock >= call.sleep_until
    /\ call' = [call EXCEPT !.pc = "start"]

\* start = time.perf_counter(); execute_single(...) runs
ExecStart ==
    /\ CallStep("start")
    /\ call' = [call EXCEPT !.pc = "stop", !.runner_start = clock]

\* stop = time.perf_counter(); service_time, latency; the sample is added
ExecStop ==
    /\ CallStep("stop")
    /\ LET absolute_expected_schedule_time ==
               call.total_start + call.expected_scheduled_time
           throughput_throttled == call.expected_scheduled_time > 0
           service_time == clock - call.runner_start
       IN  call' = [call EXCEPT
               !.pc = "next",
               !.stop = clock,
               !.has_sample = TRUE,
               !.sample_offset = call.expected_scheduled_time,
               !.service_time = service_time,
               !.latency = IF throughput_throttled
                           THEN clock - absolute_expected_schedule_time
                           ELSE service_time]

\* next_scheduled = sched.next(next_scheduled): the scheduler adds its
\* waiting time, which is 0 when the throughput is not throttled
GenNext ==
    /\ CallStep("next")
    /\ \E wait \in 0 .. 1 :
           /\ call.next_scheduled + wait <= MaxTime
           /\ call' = [call EXCEPT !.pc = "while", !.next_scheduled = @ + wait]

InitTimed ==
    /\ schedule = <<>>
    /\ InitProtocol
    /\ clock = 0
    /\ skew = NoSkew
    /\ sampling = NoSampling
    /\ call \in {InitCall(w, t) : w \in 0 .. MaxPeriod, t \in 1 .. MaxPeriod}

NextTimed ==
    \/ Tick
    \/ CallTotalStart
    \/ GenStart
    \/ GenWhile
    \/ GenYield
    \/ ExecRest
    \/ ExecSleep
    \/ ExecStart
    \/ ExecStop
    \/ GenNext

SpecTimed == InitTimed /\ [][NextTimed]_vars

(***************************************************************************)
(* One non-final join point with clocks: two load generators whose         *)
(* perf_counter differs from the master's by a fixed offset each, and      *)
(* messages that take time.  clock is the master's perf_counter.           *)
(***************************************************************************)
SkewWorkers == 0 .. 1

\* time.perf_counter() on the machine of load generator w
LocalClock(w) == clock + skew.lg[w].offset

SkewTick ==
    /\ skew.pc # "none"
    /\ clock < (IF skew.pc = "released"
                THEN skew.start_next_task + MaxLate ELSE MaxSkewTime)
    /\ clock' = clock + 1
    /\ UNCHANGED <<protocolVars, call, skew, sampling>>

SkewStep == UNCHANGED <<protocolVars, clock, call, sampling>>

InitSkewWorker(offset) ==
    [pc |-> "running", offset |-> offset, sent_at |-> 0,
     client_local_timestamp |-> 0, master_received_msg_at |-> 0,
     client_start_timestamp |-> 0, wakeup_due |-> 0, resumed_at |-> 0]

\* a load generator reaches the join point: JoinPointReached is built with
\* client_local_timestamp = time.perf_counter() and sent to the master
SkewAtJoinPoint(w) ==
    /\ skew.pc = "collecting"
    /\ skew.lg[w].pc = "running"
    /\ skew' = [skew EXCEPT !.lg[w].pc = "sent",
                            !.lg[w].sent_at = clock,
                            !.lg[w].client_local_timestamp = LocalClock(w)]
    /\ SkewStep

\* Driver.joinpoint_reached: clients_completed_current_step[client_id] =
\* (client_local_timestamp, time.perf_counter()); with the last of them the
\* handler goes on to release the load generators
SkewJoinpointReached(w) ==
    /\ skew.pc = "collecting"
    /\ skew.lg[w].pc = "sent"
    /\ LET received == [skew EXCEPT !.lg[w].pc = "received",
                                    !.lg[w].master_received_msg_at = clock]
       IN  skew' = IF \A v \in SkewWorkers : received.lg[v].pc = "received"
                   THEN [received EXCEPT !.pc = "releasing"]
                   ELSE received
    /\ SkewStep

\* a timestamp that ignores when the load generator reached the join point
DriveTimestampUncompensated(client_ended_task_at, master_received_msg_at, start_next_task) ==
    start_next_task

\* client_start_timestamp = client_ended_task_at +
\*                          (start_next_task - master_received_msg_at)
DriveTimestamp(client_ended_task_at, master_received_msg_at, start_next_task) ==
    client_ended_task_at + (start_next_task - master_received_msg_at)

\* start_next_task = time.perf_counter() + waiting_period; a Drive message
\* is sent to every load generator
SkewRelease ==
    /\ skew.pc = "releasing"
    /\ LET start_next_task == clock + skew.waiting_period
       IN  skew' = [skew EXCEPT
               !.pc = "released",
               !.start_next_task = start_next_task,
               !.lg = [w \in SkewWorkers |->
                          [skew.lg[w] EXCEPT
                              !.pc = "drive",
                              !.client_start_timestamp =
                                  DriveTimestamp(skew.lg[w].client_local_timestamp,
                                                 skew.lg[w].master_received_msg_at,
                                                 start_next_task)]]]
    /\ SkewStep

\* LoadGenerator handles Drive: sleep_time = client_start_timestamp -
\* time.perf_counter(); wakeupAfter(sleep_time), at once when it is negative
SkewDrive(w) ==
    /\ skew.lg[w].pc = "drive"
    /\ LET sleep_time == skew.lg[w].client_start_timestamp - LocalClock(w)
       IN  skew' = [skew EXCEPT
               !.lg[w].pc = "sleeping",
               !.lg[w].wakeup_due =
                   LocalClock(w) + (IF sleep_time > 0 THEN sleep_time ELSE 0)]
    /\ SkewStep

\* the WakeupMessage arrives no earlier than asked for; start_driving is set,
\* so the load generator drives on
SkewWakeup(w) ==
    /\ skew.lg[w].pc = "sleeping"
    /\ LocalClock(w) >= skew.lg[w].wakeup_due
    /\ skew' = [skew EXCEPT !.lg[w].pc = "resumed", !.lg[w].resumed_at = clock]
    /\ SkewStep

InitSkew ==
    /\ schedule = <<>>
    /\ InitProtocol
    /\ clock = 0
    /\ call = NoCall
    /\ sampling = NoSampling
    /\ skew \in {[pc |-> "collecting", waiting_period |-> p, start_next_task |-> 0,
                   lg |-> [w \in SkewWorkers |-> InitSkewWorker(o[w])]] :
                     p \in {0, WaitingPeriod},
                     o \in [SkewWorkers -> -MaxOffset .. MaxOffset]}

NextSkew ==
    \/ SkewTick
    \/ \E w \in SkewWorkers : SkewAtJoinPoint(w)
    \/ \E w \in SkewWorkers : SkewJoinpointReached(w)
    \/ SkewRelease
    \/ \E w \in SkewWorkers : SkewDrive(w)
    \/ \E w \in SkewWorkers : SkewWakeup(w)

SpecSkew == InitSkew /\ [][NextSkew]_vars

(***************************************************************************)
(* One Sampler shared by the executor thread, which adds, and the actor    *)
(* thread, which drains it with one get_nowait after the other.            *)
(***************************************************************************)
SamplingStep == UNCHANGED <<protocolVars, clock, call, skew>>

\* sampler: the Sampler; samples: the local list of the drain under way;
\* the other fields record what was offered, accepted and returned
InitSampling(q, max) ==
    [pc |-> "idle", sampler |-> [exists |-> TRUE, q |-> q], samples |-> <<>>,
     max |-> max, no |-> 0, offered |-> <<>>, accepted |-> q,
     at_start |-> <<>>, contents |-> {}, returned |-> <<>>, taken |-> <<>>]

\* the executor thread calls Sampler.add; the call returns in every case
SamplingAdd ==
    /\ sampling.pc # "none"
    /\ sampling.no < sampling.max
    /\ \E sample_type \in {"Warmup", "Normal"} :
           LET sample == Sample(0, 0, sample_type, NoProgress, sampling.no + 1)
               sampler == SamplerAdd(sampling.sampler, sample)
           IN  sampling' = [sampling EXCEPT
                   !.sampler = sampler,
                   !.no = @ + 1,
                   !.offered = Append(@, sample),
                   !.accepted = IF sampler.q = sampling.sampler.q
                                THEN @ ELSE Append(@, sample),
                   !.contents = IF sampling.pc = "draining"
                                THEN @ \cup {sampler.q} ELSE @]
    /\ SamplingStep

\* Sampler.samples is entered: samples = []
DrainStart ==
    /\ sampling.pc \in {"idle", "returned"}
    /\ sampling' = [sampling EXCEPT
           !.pc = "draining", !.samples = <<>>,
           !.at_start = sampling.sampler.q,
           !.contents = {sampling.sampler.q}]
    /\ SamplingStep

\* a drain that puts every sample in front of the ones it has
DrainGetPrepend ==
    /\ sampling.pc = "draining"
    /\ Len(sampling.sampler.q) > 0
    /\ sampling' = [sampling EXCEPT
           !.samples = <<Head(sampling.sampler.q)>> \o @,
           !.sampler.q = Tail(@),
           !.contents = @ \cup {Tail(sampling.sampler.q)}]
    /\ SamplingStep

\* samples.append(self.q.get_nowait()) on a queue that is not empty
DrainGet ==
    /\ sampling.pc = "draining"
    /\ Len(sampling.sampler.q) > 0
    /\ sampling' = [sampling EXCEPT
           !.samples = Append(@, Head(sampling.sampler.q)),
           !.sampler.q = Tail(@),
           !.contents = @ \cup {Tail(sampling.sampler.q)}]
    /\ SamplingStep

\* get_nowait raises queue.Empty: return samples
DrainEmpty ==
    /\ sampling.pc = "draining"
    /\ Len(sampling.sampler.q) = 0
    /\ sampling' = [sampling EXCEPT
           !.pc = "returned", !.returned = sampling.samples,
           !.taken = @ \o sampling.samples, !.samples = <<>>]
    /\ SamplingStep

InitDrain ==
    /\ schedule = <<>>
    /\ InitProtocol
    /\ clock = 0
    /\ call = NoCall
    /\ skew = NoSkew
    /\ sampling = InitSampling(<<>>, MaxPushes)

NextDrain ==
    \/ SamplingAdd
    \/ DrainStart
    \/ DrainGet
    \/ DrainEmpty

SpecDrain == InitDrain /\ [][NextDrain]_vars

\* a queue holding n samples
Filled(n) == [i \in 1 .. n |-> Sample(0, 0, "Normal", NoProgress, 0)]

InitCapacity ==
    /\ schedule = <<>>
    /\ InitProtocol
    /\ clock = 0
    /\ call = NoCall
    /\ skew = NoSkew
    /\ sampling \in {InitSampling(Filled(QueueMaxSize - free), MaxAdds) : free \in 0 .. MaxFree}

NextCapacity == SamplingAdd

SpecCapacity == InitCapacity /\ [][NextCapacity]_vars

(***************************************************************************)
(* Executor.__call__ next to the actor thread that sets the cancel and     *)
(* complete events: one step of the executor is one statement of its loop. *)
(* The history fields count the runner invocations and the samples added   *)
(* after an event was set and keep the position at which it was set.       *)
(***************************************************************************)
\* an executor on a schedule of the given number of tuples
InitFlags(tuples, completes_parent) ==
    [pc |-> "for", tuples |-> tuples, completes_parent |-> completes_parent,
     cancel |-> FALSE, complete |-> FALSE, completed |-> NoProgress,
     invoked_after_cancel |-> 0, invoked_after_complete |-> 0,
     added_after_complete |-> 0,
     cancel_set_at |-> "none", complete_set_at |-> "none"]

FlagsStep(pc) ==
    /\ call.pc = pc
    /\ UNCHANGED <<protocolVars, clock, skew, sampling>>

\* for ... in self.schedule: the next tuple, or the schedule is exhausted
FlagsFor ==
    /\ FlagsStep("for")
    /\ call' = IF call.tuples = 0 THEN [call EXCEPT !.pc = "finally"]
               ELSE [call EXCEPT !.pc = "cancel", !.tuples = @ - 1]

\* if self.cancel.is_set(): break
FlagsCancelCheck ==
    /\ FlagsStep("cancel")
    /\ call' = [call EXCEPT !.pc = IF call.cancel THEN "finally" ELSE "run"]

\* the sleep, if any, and execute_single(runner, self.es, params)
FlagsRun ==
    /\ FlagsStep("run")
    /\ call' = [call EXCEPT
           !.pc = "completed",
           !.invoked_after_cancel = IF call.cancel THEN @ + 1 ELSE @,
           !.invoked_after_complete = IF call.complete THEN @ + 1 ELSE @]

\* completed = percent_completed if not self.complete.is_set() else 1.0
FlagsCompleted ==
    /\ FlagsStep("completed")
    /\ call' = [call EXCEPT !.pc = "add",
                            !.completed = IF call.complete THEN FullProgress ELSE NoProgress]

\* self.sampler.add(...)
FlagsAdd ==
    /\ FlagsStep("add")
    /\ call' = [call EXCEPT !.pc = "complete",
                            !.added_after_complete = IF call.complete THEN @ + 1 ELSE @]

\* a check of complete that never breaks
FlagsCompleteCheckNoBreak ==
    /\ FlagsStep("complete")
    /\ call' = [call EXCEPT !.pc = "for"]

\* if self.complete.is_set(): break
FlagsCompleteCheck ==
    /\ FlagsStep("complete")
    /\ call' = [call EXCEPT !.pc = IF call.complete THEN "finally" ELSE "for"]

\* finally: if self.task.completes_parent: self.complete.set()
FlagsFinally ==
    /\ FlagsStep("finally")
    /\ call' = [call EXCEPT !.pc = "done",
                            !.complete = IF call.completes_parent THEN TRUE ELSE @]

\* the executor has not returned
FlagsRunning == call.pc \in {"for", "cancel", "run", "completed", "add", "complete", "finally"}

\* LoadGenerator.receiveMessage: CompleteCurrentTask while the executor runs
FlagsSetComplete ==
    /\ FlagsRunning
    /\ ~call.complete
    /\ call' = [call EXCEPT !.complete = TRUE, !.complete_set_at = call.pc]
    /\ UNCHANGED <<protocolVars, clock, skew, sampling>>

\* LoadGenerator.receiveMessage: ActorExitRequest while the executor runs
FlagsSetCancel ==
    /\ FlagsRunning
    /\ ~call.cancel
    /\ call' = [call EXCEPT !.cancel = TRUE, !.cancel_set_at = call.pc]
    /\ UNCHANGED <<protocolVars, clock, skew, sampling>>

InitFlagged ==
    /\ schedule = <<>>
    /\ InitProtocol
    /\ clock = 0
    /\ skew = NoSkew
    /\ sampling = NoSampling
    /\ call \in {InitFlags(tuples, completes_parent) :
                    tuples \in 0 .. MaxIterations + 1, completes_parent \in BOOLEAN}

NextFlagged ==
    \/ FlagsFor
    \/ FlagsCancelCheck
    \/ FlagsRun
    \/ FlagsCompleted
    \/ FlagsAdd
    \/ FlagsCompleteCheck
    \/ FlagsFinally
    \/ FlagsSetComplete
    \/ FlagsSetCancel

SpecFlagged == InitFlagged /\ [][NextFlagged]_vars

(***************************************************************************)
(* calculate_global_throughput.  Times are whole ticks, TicksPerSecond of  *)
(* them to a second; a throughput is the fraction <<operations, seconds>>  *)
(* in lowest terms.                                                        *)
(***************************************************************************)
\* metrics.SampleType, whose members are ordered Warmup < Normal
SampleTypeRank(sample_type) == IF sample_type = "Warmup" THEN 0 ELSE 1

\* total_count / interval, for an interval in ticks
Throughput(total_count, interval) ==
    LET n == total_count * TicksPerSecond
        common == {d \in 1 .. interval : n % d = 0 /\ interval % d = 0}
        g == CHOOSE d \in common : \A e \in common : e <= d
    IN  <<n \div g, interval \div g>>

\* int(interval) + bucket_interval_secs for bucket_interval_secs = 1, in ticks
NextBucket(interval) == ((interval \div TicksPerSecond) + 1) * TicksPerSecond

RECURSIVE InsertByTime(_, _)
\* sample put behind the samples of sorted that are not later than it
InsertByTime(sorted, sample) ==
    IF sorted = <<>> THEN <<sample>>
    ELSE IF sorted[Len(sorted)].absolute_time <= sample.absolute_time
         THEN Append(sorted, sample)
         ELSE Append(InsertByTime(SubSeq(sorted, 1, Len(sorted) - 1), sample),
                     sorted[Len(sorted)])

RECURSIVE SortedByTime(_)
\* sorted(v, key=lambda s: s.absolute_time): samples of equal absolute_time
\* keep the order they have in v
SortedByTime(v) ==
    IF v = <<>> THEN <<>>
    ELSE InsertByTime(SortedByTime(SubSeq(v, 1, Len(v) - 1)), v[Len(v)])

\* the point appended for sample
ThroughputPoint(sample, current_sample_type, total_count, interval) ==
    [absolute_time |-> sample.absolute_time, relative_time |-> sample.relative_time,
     sample_type |-> current_sample_type,
     throughput |-> Throughput(total_count, interval)]

\* the body of `for sample in current_samples` applied to the locals st
ScanSample(st, sample) ==
    LET promoted == SampleTypeRank(st.current_sample_type) < SampleTypeRank(sample.sample_type)
        current_sample_type == IF promoted THEN sample.sample_type ELSE st.current_sample_type
        count == IF promoted THEN 0 ELSE st.sample_count_for_current_sample_type
        total_count == st.total_count + sample.total_ops
        since_start == sample.absolute_time - st.start_time
        interval == IF since_start > st.interval THEN since_start ELSE st.interval
        emits == interval > 0 /\ interval >= st.current_bucket
    IN  [st EXCEPT
            !.current_sample_type = current_sample_type,
            !.total_count = total_count,
            !.interval = interval,
            !.sample_count_for_current_sample_type = IF emits THEN count + 1 ELSE count,
            !.current_bucket = IF emits THEN NextBucket(interval) ELSE @,
            !.points = IF emits
                       THEN Append(@, ThroughputPoint(sample, current_sample_type,
                                                      total_count, interval))
                       ELSE @]

RECURSIVE ScanSamples(_, _)
ScanSamples(st, current_samples) ==
    IF current_samples = <<>> THEN st
    ELSE ScanSamples(ScanSample(st, Head(current_samples)), Tail(current_samples))

\* no point appended after the loop
FinalPointNever(st, sample) == st.points

\* "also include the last sample if we don't have one for the current sample
\* type": the points of the task after the loop, sample being the last one
FinalPoint(st, sample) ==
    IF st.interval > 0 /\ st.sample_count_for_current_sample_type = 0
    THEN Append(st.points, ThroughputPoint(sample, st.current_sample_type,
                                           st.total_count, st.interval))
    ELSE st.points

\* the locals of the scan of one task after it
ScanOfTask(v) ==
    LET current_samples == SortedByTime(v)
        first == current_samples[1]
    IN  ScanSamples([total_count |-> 0, interval |-> 0, current_bucket |-> 0,
                     current_sample_type |-> first.sample_type,
                     sample_count_for_current_sample_type |-> 0,
                     start_time |-> first.absolute_time - first.time_period,
                     points |-> <<>>],
                    current_samples)

\* global_throughput[task] for the samples v of the task, which are not none
ThroughputOfTask(v) ==
    LET current_samples == SortedByTime(v)
    IN  FinalPoint(ScanOfTask(v), current_samples[Len(current_samples)])

\* calculate_global_throughput(samples): the points of every task that has
\* samples
calculate_global_throughput(samples) ==
    LET tasks == {samples[i].task : i \in 1 .. Len(samples)}
    IN  [k \in tasks |->
            ThroughputOfTask(SelectSeq(samples, LAMBDA sample : sample.task = k))]

\* the samples of one executor, which started at wall-clock time start and
\* pushed a sample at each of the times: time_period is the time since the
\* start, relative_time the time since the sampler was made at the start
ThroughputSamples(client_id, task, start, times, types) ==
    [i \in 1 .. Len(times) |->
        [client_id |-> client_id, task |-> task, no |-> i,
         absolute_time |-> times[i], relative_time |-> times[i] - start,
         time_period |-> times[i] - start,
         sample_type |-> types[i], total_ops |-> 1]]

\* the sample sequences a worker can have: the clock does not go back and
\* Warmup samples come before Normal ones
SampleTimes(n, start) ==
    {t \in [1 .. n -> 0 .. MaxAbsoluteTime] :
        /\ \A i \in 1 .. n - 1 : t[i] <= t[i + 1]
        /\ \A i \in 1 .. n : t[i] >= start}

SampleTypes(n) ==
    {y \in [1 .. n -> {"Warmup", "Normal"}] :
        \A i \in 1 .. n - 1 : y[i] = "Normal" => y[i + 1] = "Normal"}

WorkerSamples(client_id, tasks, starts, most) ==
    UNION {{ThroughputSamples(client_id, task, ns[2], times, types) :
                task \in tasks, times \in SampleTimes(ns[1], ns[2]),
                types \in SampleTypes(ns[1])} :
           ns \in (0 .. most) \X starts}

\* Driver.update_samples: the next samples of worker w reach raw_samples
ThroughputUpdateSamples(w) ==
    /\ call.pc = "update_samples"
    /\ call.sent[w] < Len(call.of[w])
    /\ call' = [call EXCEPT !.sent[w] = @ + 1,
                            !.raw_samples = Append(@, call.of[w][call.sent[w] + 1])]
    /\ UNCHANGED <<protocolVars, clock, skew, sampling>>

\* post_process_samples: aggregates = calculate_global_throughput(self.raw_samples)
ThroughputPostProcess ==
    /\ call.pc = "update_samples"
    /\ \A w \in DOMAIN call.of : call.sent[w] = Len(call.of[w])
    /\ call' = [call EXCEPT !.pc = "post_processed",
                            !.aggregates = calculate_global_throughput(call.raw_samples)]
    /\ UNCHANGED <<protocolVars, clock, skew, sampling>>

InitThroughput ==
    /\ schedule = <<>>
    /\ InitProtocol
    /\ clock = 0
    /\ skew = NoSkew
    /\ sampling = NoSampling
    /\ \E s0 \in WorkerSamples(0, {1}, {0}, MaxSamples),
          s1 \in WorkerSamples(1, {1, 2}, 0 .. 1, MaxSamples - 1) :
           call = [pc |-> "update_samples", of |-> <<s0, s1>>, sent |-> <<0, 0>>,
                      raw_samples |-> <<>>, aggregates |-> <<>>]

NextThroughput ==
    \/ \E w \in 1 .. 2 : ThroughputUpdateSamples(w)
    \/ ThroughputPostProcess

SpecThroughput == InitThroughput /\ [][NextThroughput]_vars

(***************************************************************************)
(* Specifications                                                          *)
(***************************************************************************)
Task(clients, completes_parent, eternal, iterations) ==
    [clients |-> clients, completes_parent |-> completes_parent, eternal |-> eternal,
     warmup_iterations |-> 0, iterations |-> iterations]

Element(clients, tasks) == [clients |-> clients, tasks |-> tasks]

\* the elements the schedules of the protocol are built from: one task run by
\* both clients; a finite task that completes its parent next to an eternal
\* task; a task of one client (the other client idles); three sub-tasks for
\* two clients, the second of which completes its parent
ProtocolElements ==
    { Element(2, <<Task(2, FALSE, FALSE, 2)>>),
      Element(2, <<Task(1, TRUE, FALSE, 1), Task(1, FALSE, TRUE, 0)>>),
      Element(1, <<Task(1, FALSE, FALSE, 2)>>),
      Element(2, <<Task(1, FALSE, FALSE, 1), Task(1, TRUE, FALSE, 1),
                   Task(1, FALSE, FALSE, 1)>>) }

\* three clients: a task that completes its parent next to a task of two
\* further clients
ThreeClientElements ==
    { Element(3, <<Task(1, TRUE, FALSE, 1), Task(2, FALSE, FALSE, 2)>>) }

ProtocolSchedules ==
    SeqsUpTo(ProtocolElements, MaxGroups) \cup {<<e>> : e \in ThreeClientElements}

Init ==
    /\ schedule \in ProtocolSchedules
    /\ InitRest

WorkerStep(w) ==
    \/ LGStartLoadGenerator(w)
    \/ LGDrive(w)
    \/ LGCompleteCurrentTask(w)
    \/ LGWakeup(w)

ExecutorStep(w) ==
    \/ ExecLeave(w)
    \/ ExecSample(w)
    \/ ExecCheck(w)

MasterStep(w) ==
    \/ JoinpointReached(w)
    \/ UpdateSamplesReceived(w)

Next ==
    \/ AfterTrackPrepared
    \/ \E w \in Workers : WorkerStep(w)
    \/ \E w \in Workers : ExecutorStep(w)
    \/ \E w \in Workers : MasterStep(w)

Spec == Init /\ [][Next]_vars

\* the ids a worker can have
WorkerIds == 0 .. MaxClients

\* messages are delivered, wakeups fire, and the threads of the executors and
\* of the coordinator are scheduled
Fairness ==
    /\ WF_vars(AfterTrackPrepared)
    /\ \A w \in WorkerIds :
           /\ WF_vars(w \in Workers /\ (LGStartLoadGenerator(w) \/ LGDrive(w)
                                         \/ LGCompleteCurrentTask(w)))
           /\ WF_vars(w \in Workers /\ LGWakeup(w))
           /\ WF_vars(w \in Workers /\ ExecutorStep(w))
           /\ WF_vars(w \in Workers /\ MasterStep(w))

\* one group: a task of both clients; a task that completes its parent next
\* to an eternal task; three sub-tasks for two clients
FairElements ==
    { Element(2, <<Task(2, FALSE, FALSE, 2)>>),
      Element(2, <<Task(1, TRUE, FALSE, 1), Task(1, FALSE, TRUE, 0)>>),
      Element(2, <<Task(1, FALSE, FALSE, 1), Task(1, TRUE, FALSE, 1),
                   Task(1, FALSE, FALSE, 1)>>) }

InitFair ==
    /\ schedule \in {<<e>> : e \in FairElements}
    /\ InitRest

SpecFair == InitFair /\ [][Next]_vars /\ Fairness

\* runs in which runners raise, the benchmark is cancelled and actors exit;
\* the last element has a task without iterations, whose generator raises
FailElements ==
    { Element(2, <<Task(1, TRUE, FALSE, 1), Task(1, FALSE, TRUE, 0)>>),
      Element(2, <<Task(1, FALSE, FALSE, 1), Task(1, TRUE, FALSE, 1),
                   Task(1, FALSE, FALSE, 1)>>),
      Element(1, <<Task(1, TRUE, FALSE, 0)>>) }

FailSchedules == SeqsUpTo(FailElements, MaxGroups - 1)

InitFail ==
    /\ schedule \in FailSchedules
    /\ InitRest

FailStep(w) ==
    \/ ExecRaise(w)
    \/ LGActorExitRequest(w)
    \/ LGExited(w)
    \/ FailureReceived(w)
    \/ ChildActorExitedReceived(w)

NextFail ==
    \/ Next
    \/ \E w \in Workers : FailStep(w)
    \/ DriverActorExitRequest

SpecFail == InitFail /\ [][NextFail]_vars

\* runs in which load generators also exit without the coordinator having
\* asked for it
ExitElements ==
    { Element(2, <<Task(2, FALSE, FALSE, 1)>>),
      Element(2, <<Task(1, TRUE, FALSE, 1), Task(1, FALSE, TRUE, 0)>>) }

InitExit ==
    /\ schedule \in {<<e>> : e \in ExitElements}
    /\ InitRest

NextExit ==
    \/ NextFail
    \/ \E w \in Workers : LGExitRequested(w)

SpecExit == InitExit /\ [][NextExit]_vars

\* runs of one task of both clients in which a load generator may be told
\* to exit, which is what sets its cancel flag; messages are delivered,
\* wakeups fire and the threads are scheduled, when an ActorExitRequest is
\* sent is left open
InitCancel ==
    /\ schedule = <<Element(2, <<Task(2, FALSE, FALSE, 1)>>)>>
    /\ InitRest

FairnessExit ==
    \A w \in WorkerIds :
        /\ WF_vars(w \in Workers /\ LGActorExitRequest(w))
        /\ WF_vars(w \in Workers /\ LGExited(w))
        /\ WF_vars(w \in Workers /\ (FailureReceived(w) \/ ChildActorExitedReceived(w)))

CancelStep(w) ==
    \/ LGExitRequested(w)
    \/ LGActorExitRequest(w)
    \/ LGExited(w)
    \/ FailureReceived(w)
    \/ ChildActorExitedReceived(w)

NextCancel ==
    \/ Next
    \/ \E w \in Workers : CancelStep(w)

SpecCancel == InitCancel /\ [][NextCancel]_vars /\ Fairness /\ FairnessExit

\* runs in which the coordinator gets a report of a barrier twice; the
\* ActorExitRequest it sends when it fails is handled by the load generators
ExcessElements ==
    { Element(2, <<Task(2, FALSE, FALSE, 1)>>),
      Element(2, <<Task(1, FALSE, FALSE, 1), Task(1, FALSE, FALSE, 2)>>) }

InitExcess ==
    /\ schedule \in SeqsUpTo(ExcessElements, MaxGroups)
    /\ InitRest

ExcessStep(w) ==
    \/ ExcessJoinPointReached(w)
    \/ LGActorExitRequest(w)
    \/ LGExited(w)
    \/ ChildActorExitedReceived(w)

NextExcess ==
    \/ Next
    \/ \E w \in Workers : ExcessStep(w)

SpecExcess == InitExcess /\ [][NextExcess]_vars

\* runs in which runners raise transport errors
TransportElements ==
    { Element(2, <<Task(2, FALSE, FALSE, 2)>>),
      Element(2, <<Task(1, TRUE, FALSE, 1), Task(1, FALSE, FALSE, 2)>>) }

InitTransport ==
    /\ schedule \in {<<e>> : e \in TransportElements}
    /\ InitRest

NextTransport ==
    \/ Next
    \/ \E w \in Workers : ExecTransportError(w)

SpecTransport == InitTransport /\ [][NextTransport]_vars

\* one iteration-count task, for every number of clients, warmup iterations
\* and iterations; the element has one client, which runs the schedule of
\* every client of the task in turn
PrepareStep ==
    \/ \E ok \in BOOLEAN : PrepareTrackReceived(ok)
    \/ TrackPreparedReceived
    \/ PrepareFailureReceived
    \/ ExcessTrackPrepared

\* one group: a task of both clients; a task of one client
PrepareElements ==
    { Element(2, <<Task(2, FALSE, FALSE, 2)>>),
      Element(1, <<Task(1, FALSE, FALSE, 1)>>) }

\* the run of a one-group schedule from start_benchmark on
InitPreparation ==
    /\ schedule \in {<<e>> : e \in PrepareElements}
    /\ InitProtocol
    /\ clock = 0
    /\ skew = NoSkew
    /\ sampling = NoSampling
    /\ call \in {InitPrepare(hosts) : hosts \in 1 .. MaxHosts}

NextPrepare ==
    \/ PrepareStep
    \/ \E w \in Workers : LGStartLoadGenerator(w)
    \/ \E w \in Workers : LGDrive(w)
    \/ \E w \in Workers : LGWakeup(w)
    \/ \E w \in Workers : ExecutorStep(w)
    \/ \E w \in Workers : MasterStep(w)
    \/ \E w \in Workers : FailStep(w)

SpecPrepare == InitPreparation /\ [][NextPrepare]_vars

\* one group: a task of both clients; three sub-tasks for two clients, so
\* that the first client runs two tasks one after the other
SampleElements ==
    { Element(2, <<Task(2, FALSE, FALSE, 2)>>),
      Element(2, <<Task(1, FALSE, FALSE, 1), Task(1, FALSE, FALSE, 1),
                   Task(1, FALSE, FALSE, 1)>>) }

InitSamples ==
    /\ schedule \in SeqsUpTo(SampleElements, MaxGroups)
    /\ InitRest

\* the actor of a worker handles one message at a time
NextSamples ==
    \/ AfterTrackPrepared
    \/ \E w \in Workers : call = NoCall /\ LGStartLoadGenerator(w)
    \/ \E w \in Workers : call = NoCall /\ LGDrive(w)
    \/ \E w \in Workers : call = NoCall /\ LGWakeup(w)
    \/ \E w \in Workers : LGWakeupSendSamples(w)
    \/ \E w \in Workers : LGWakeupRest(w)
    \/ \E w \in Workers : ExecutorStep(w)
    \/ \E w \in Workers : MasterStep(w)

SpecSamples == InitSamples /\ [][NextSamples]_vars

IterationSchedules ==
    {<<[clients |-> 1, tasks |-> <<t>>]>> :
        t \in Tasks(1 .. MaxClients, {FALSE}, 0 .. MaxIterations, 0 .. MaxIterations)}

InitIter ==
    /\ schedule \in IterationSchedules
    /\ InitRest

NextIter ==
    \/ AfterTrackPrepared
    \/ \E w \in Workers : LGStartLoadGenerator(w)
    \/ \E w \in Workers : LGDrive(w)
    \/ \E w \in Workers : LGWakeup(w)
    \/ \E w \in Workers : ExecutorStep(w)
    \/ \E w \in Workers : MasterStep(w)

SpecIter == InitIter /\ [][NextIter]_vars

\* the Allocator applied to every schedule of AllocatorSchedules
InitAlloc ==
    /\ schedule \in AllocatorSchedules
    /\ InitRest

NextAlloc == AfterTrackPrepared

SpecAlloc == InitAlloc /\ [][NextAlloc]_vars

(***************************************************************************)
(* Properties                                                              *)
(***************************************************************************)
Allocated == driver.drivers > 0

MaxElementClients ==
    CHOOSE m \in {schedule[g].clients : g \in DOMAIN schedule} :
        \A g \in DOMAIN schedule : schedule[g].clients <= m

\* C10: the allocation matrix is rectangular (all rows have the same
\* length) and has as many rows as the maximum of `clients` over the
\* elements of the schedule.
C10_Rectangular ==
    Allocated =>
        /\ DOMAIN driver.allocations = 0 .. MaxElementClients - 1
        /\ \A c1, c2 \in DOMAIN driver.allocations :
               Len(driver.allocations[c1]) = Len(driver.allocations[c2])

\* an element whose sub-tasks need more clients than there are rows was
\* allocated over several columns, and padded with None
C10_Witness ==
    /\ Allocated
    /\ \E c \in DOMAIN driver.allocations :
           /\ Len(driver.allocations[c]) > 2 * Len(schedule) + 1
           /\ \E i \in 1 .. Len(driver.allocations[c]) : IsNone(driver.allocations[c][i])


Count(seq, type) == Cardinality({i \in DOMAIN seq : seq[i].type = type})

\* C1: a worker that is in a task of step k+1 (the element after join point
\* k) implies that all workers have reported join point k (and all join
\* points before it) to the coordinator, that the coordinator has issued the
\* Drive for join point k to this worker, and that this worker has woken up
\* on it.
C1_BarrierOrdering ==
    \A w \in Workers :
        IsTask(lg[w].current_task) =>
            LET k == lg[w].current_task.group - 1
            IN  /\ \A b \in 0 .. k : hist.reported[b] = Workers
                /\ hist.drives[w] = k + 1
                /\ hist.woken[w] = k + 1

\* a worker runs a task of the second step while another worker has not yet
\* woken up from the join point before it
C1_Witness ==
    \E w, v \in Workers :
        /\ IsTask(lg[v].current_task)
        /\ lg[v].current_task.group = 2
        /\ lg[v].executor_future = "running"
        /\ IsJoinPoint(lg[w].current_task)
        /\ lg[w].current_task.id = 1


\* the master handles a JoinPointReached message of worker w in this step
HandlesJoinPointReached(w) ==
    /\ driver.actor = "alive"
    /\ toMaster[w] # <<>>
    /\ Head(toMaster[w]).type = "JoinPointReached"
    /\ toMaster'[w] = Tail(toMaster[w])

LastStep == IF driver.current_step < Len(schedule) THEN driver.current_step + 1
            ELSE Len(schedule)

C3_State ==
    /\ Count(toStarter, "BenchmarkComplete") <= 1
    /\ Count(toStarter, "BenchmarkComplete") = 1
           <=> (Allocated /\ driver.current_step = driver.number_of_steps)
    /\ Allocated => driver.number_of_steps = Len(schedule)
    /\ driver.current_step >= -1
    /\ \A b \in JoinPointIds : hist.reported[b] = Workers <=> b <= driver.current_step
    /\ Count(toStarter, "TaskFinished") = LastStep
    /\ \A w \in Workers : hist.drives[w] = LastStep

C3_Step ==
    Count(toStarter', "BenchmarkComplete") > Count(toStarter, "BenchmarkComplete") =>
        \E w \in Workers :
            /\ HandlesJoinPointReached(w)
            /\ Head(toMaster[w]).task.id = Len(schedule)
            /\ driver.currently_completed = driver.drivers - 1
            /\ driver.current_step = driver.number_of_steps - 1
            /\ driver'.current_step = driver.number_of_steps
            /\ inbox' = inbox
            /\ Count(toStarter', "TaskFinished") = Count(toStarter, "TaskFinished")

\* C3: BenchmarkComplete is emitted at most once, and only in the handler of
\* the N-th JoinPointReached of the final barrier, exactly when current_step
\* (which starts at -1 and counts the fully reported barriers) becomes
\* n_steps = G; in that handler no Drive and no TaskFinished is sent, and for
\* every earlier fully reported barrier one Drive per worker and one
\* TaskFinished have been sent.
C3_CompleteOnce == [](C3_State) /\ [][C3_Step]_vars

\* the benchmark of a schedule of two steps is complete
C3_Witness ==
    /\ Len(schedule) = 2
    /\ Count(toStarter, "BenchmarkComplete") = 1
    /\ Count(toStarter, "TaskFinished") = 2
    /\ \A w \in Workers : hist.drives[w] = 2

CompleteCurrentTaskSentTo(w) ==
    Count(inbox'[w], "CompleteCurrentTask") > Count(inbox[w], "CompleteCurrentTask")

C5_Condition(w) ==
    LET msg == Head(toMaster[w])
        reported == driver.clients_completed_current_step \cup {msg.client_id}
        completing == msg.task.clients_executing_completing_task
    IN  /\ driver.currently_completed + 1 < driver.drivers
        /\ Len(completing) > 0
        /\ \A i \in 1 .. Len(completing) : completing[i] \in reported
        /\ ~driver.complete_current_task_sent

C5_Step ==
    /\ \A w \in Workers :
           HandlesJoinPointReached(w) =>
               /\ C5_Condition(w) <=> \E c \in Workers : CompleteCurrentTaskSentTo(c)
               /\ C5_Condition(w) =>
                      /\ \A c \in Workers :
                             inbox'[c] = Append(inbox[c], CompleteCurrentTask)
                      /\ driver'.complete_current_task_sent
    /\ (\E c \in Workers : CompleteCurrentTaskSentTo(c)) =>
           \E w \in Workers : HandlesJoinPointReached(w)

\* C5: when a JoinPointReached arrives, the coordinator sends
\* CompleteCurrentTask if and only if, with this arrival recorded, fewer than
\* N workers have reported the barrier, the completing-client set of the
\* barrier is not empty, all its clients have reported and
\* complete_current_task_sent is false; it then sends one CompleteCurrentTask
\* to every worker and sets complete_current_task_sent.
C5_SendsIff == [][C5_Step]_vars

\* of three workers two have reported, CompleteCurrentTask was sent on the
\* first report and not again on the second
C5_Witness ==
    /\ driver.drivers = 3
    /\ driver.currently_completed = 2
    /\ driver.complete_current_task_sent
    /\ \A w \in Workers : hist.cct[w][1] = 1

C6_State ==
    /\ \A w \in Workers : \A b \in JoinPointIds : hist.cct[w][b] <= 1
    /\ driver.currently_completed = 0 => ~driver.complete_current_task_sent

C6_Step ==
    (driver.complete_current_task_sent /\ ~driver'.complete_current_task_sent) =>
        /\ driver'.current_step = driver.current_step + 1
        /\ hist'.reported[driver'.current_step] = Workers

\* C6: each worker is sent at most one CompleteCurrentTask per step:
\* complete_current_task_sent is false when a step begins, and once set it is
\* cleared only when the barrier of the step is fully reported (so that a
\* later step can send CompleteCurrentTask again).
C6_OncePerStep == [](C6_State) /\ [][C6_Step]_vars

\* CompleteCurrentTask was sent in each of two steps
C6_Witness ==
    \E w \in Workers :
        /\ Len(schedule) = 2
        /\ hist.cct[w][1] = 1
        /\ hist.cct[w][2] = 1
        /\ hist.reported[1] = Workers

C8_LastSampleFull ==
    \A w \in Workers :
        executor[w].exit = "complete" => IsFull(executor[w].completed)


AllFinite == \A g \in DOMAIN schedule :
                 \A i \in DOMAIN schedule[g].tasks :
                     /\ ~schedule[g].tasks[i].eternal
                     /\ ~GeneratorRaises(schedule[g].tasks[i])

\* C2 as stated: in a run without failures of a schedule whose tasks are all
\* finite, every worker eventually reports every barrier and the coordinator
\* eventually emits BenchmarkComplete.
C2_Completes ==
    AllFinite =>
        <>(/\ \A b \in JoinPointIds : hist.reported[b] = Workers
           /\ Count(toStarter, "BenchmarkComplete") = 1)

CompletingAndEternal ==
    Element(2, <<Task(1, TRUE, FALSE, 1), Task(1, FALSE, TRUE, 0)>>)

\* C4 as stated: in a group of a task that completes its parent and an
\* eternal task, both workers eventually report the closing barrier of the
\* group.
C4_BothReport ==
    schedule[1] = CompletingAndEternal => <>(hist.reported[1] = Workers)

FinishedExecutor(w) == lg[w].executor_future \in {"done", "failed"}

C9_State ==
    \A w \in Workers :
        (FinishedExecutor(w) /\ TaskOf(schedule, executor[w].task).completes_parent)
            => lg[w].complete

C9_Step ==
    \A w \in Workers :
        executor[w].pc # "idle" =>
            IF executor'[w].pc = "idle" /\ TaskOf(schedule, executor[w].task).completes_parent
            THEN lg'[w].complete
            ELSE executor'[w] # executor[w] => lg'[w].complete = lg[w].complete

\* C9: when the executor of a task with completes_parent terminates, by
\* whichever exit (schedule exhausted, cancel, complete, exception of the
\* runner), the complete flag of its worker is set once it has finished; no
\* step of an executor of a task without completes_parent changes the flag.
C9_FinallySetsComplete == [](C9_State) /\ [][C9_Step]_vars

\* the runner of a task that completes its parent has raised
C9_Witness ==
    \E w \in Workers :
        /\ executor[w].exit = "error"
        /\ ~GeneratorRaises(TaskOf(schedule, executor[w].task))
        /\ lg[w].executor_future = "failed"
        /\ TaskOf(schedule, executor[w].task).completes_parent
        /\ lg[w].complete


Rows == DOMAIN driver.allocations

\* C11 as stated: in every column of the allocation matrix the cells that are
\* not None are all the same Task or all the same JoinPoint.
C11_UniformColumns ==
    Allocated =>
        \A r1, r2 \in Rows :
            \A c \in 1 .. Len(driver.allocations[r1]) :
                LET a == driver.allocations[r1][c]
                    b == driver.allocations[r2][c]
                IN  (~IsNone(a) /\ ~IsNone(b)) => a = b

\* C11: every column of the allocation matrix either holds the same JoinPoint
\* in every row, or holds no JoinPoint and at least one Task, and its Tasks
\* are sub-tasks of one and the same element of the schedule (they need not
\* be the same Task); the other cells are None.
C11_ColumnsOfOneElement ==
    Allocated =>
        \A r1, r2 \in Rows :
            \A c \in 1 .. Len(driver.allocations[r1]) :
                /\ c <= Len(driver.allocations[r2])
                /\ LET a == driver.allocations[r1][c]
                       b == driver.allocations[r2][c]
                   IN  /\ IsJoinPoint(a) => b = a
                       /\ (IsTask(a) /\ IsTask(b)) => a.group = b.group
                       /\ IsNone(a) =>
                              \E r \in Rows : IsTask(driver.allocations[r][c])

\* a column with two different Tasks and a column with a Task and a None
C11_Witness ==
    /\ Allocated
    /\ \E r1, r2 \in Rows : \E c \in 1 .. Len(driver.allocations[r1]) :
           /\ IsTask(driver.allocations[r1][c])
           /\ IsTask(driver.allocations[r2][c])
           /\ driver.allocations[r1][c] # driver.allocations[r2][c]
    /\ \E r1, r2 \in Rows : \E c \in 1 .. Len(driver.allocations[r1]) :
           /\ IsTask(driver.allocations[r1][c])
           /\ IsNone(driver.allocations[r2][c])

RECURSIVE SumClients(_, _)
SumClients(tasks, n) == IF n = 0 THEN 0 ELSE SumClients(tasks, n - 1) + tasks[n].clients

\* the number of task columns of element g: its sub-task clients over the rows
TaskColumns(g) ==
    LET n == Cardinality(Rows)
    IN  (SumClients(schedule[g].tasks, Len(schedule[g].tasks)) + n - 1) \div n

\* the index (from 1) of the JoinPoint that closes element g; 1 for g = 0
RECURSIVE JoinPointColumn(_)
JoinPointColumn(g) == IF g = 0 THEN 1 ELSE JoinPointColumn(g - 1) + TaskColumns(g) + 1

\* C12 as stated: every row has 2 * G + 1 cells, with a JoinPoint at every
\* even column index (counted from 0).
C12_TwoColumnsPerElement ==
    Allocated =>
        \A r \in Rows :
            /\ Len(driver.allocations[r]) = 2 * Len(schedule) + 1
            /\ \A g \in 0 .. Len(schedule) :
                   IsJoinPoint(driver.allocations[r][2 * g + 1])

\* C12: every row has 1 + the sum over the elements of (ceil(S / N) + 1)
\* cells, where S is the sum of the clients of the element's sub-tasks and N
\* the number of rows; the JoinPoints of a row are JoinPoint 0 in the first
\* column and JoinPoint g right after the ceil(S / N) columns of element g.
C12_RowLayout ==
    Allocated =>
        \A r \in Rows :
            LET row == driver.allocations[r]
            IN  /\ Len(row) = JoinPointColumn(Len(schedule))
                /\ \A g \in 0 .. Len(schedule) :
                       /\ IsJoinPoint(row[JoinPointColumn(g)])
                       /\ row[JoinPointColumn(g)].id = g
                /\ Cardinality({c \in 1 .. Len(row) : IsJoinPoint(row[c])})
                       = Len(schedule) + 1

\* an element whose sub-tasks have more clients than there are rows takes
\* more than one task column
C12_Witness ==
    /\ Allocated
    /\ \E g \in 1 .. Len(schedule) : TaskColumns(g) > 1
    /\ \A r \in Rows : Len(driver.allocations[r]) > 2 * Len(schedule) + 1

\* the rows that hold a Task of element g that completes its parent
CompletingRows(g) ==
    {r \in Rows :
        \E c \in 1 .. Len(driver.allocations[r]) :
            LET cell == driver.allocations[r][c]
            IN  /\ IsTask(cell)
                /\ cell.group = g
                /\ TaskOf(schedule, cell).completes_parent}

ClientsOf(jp) ==
    {jp.clients_executing_completing_task[i] :
        i \in 1 .. Len(jp.clients_executing_completing_task)}

\* C13: the clients_executing_completing_task of the JoinPoint that closes an
\* element are exactly the rows (client indices modulo N) that were assigned
\* a sub-task of the element with completes_parent; so a JoinPoint with a
\* non-empty set follows a Task that completes its parent, and the set of
\* JoinPoint 0 is empty.
C13_CompletingClients ==
    Allocated =>
        \A r \in Rows :
            \A c \in 1 .. Len(driver.allocations[r]) :
                LET cell == driver.allocations[r][c]
                IN  IsJoinPoint(cell) =>
                        /\ cell.id = 0 => ClientsOf(cell) = {}
                        /\ cell.id > 0 => ClientsOf(cell) = CompletingRows(cell.id)
                        /\ ClientsOf(cell) # {} =>
                               \E s \in 1 .. Len(schedule[cell.id].tasks) :
                                   schedule[cell.id].tasks[s].completes_parent

\* a sub-task that completes its parent was assigned to a row by wrapping
\* the client index around
C13_Witness ==
    /\ Allocated
    /\ \E g \in 1 .. Len(schedule) :
           /\ TaskColumns(g) > 1
           /\ \E r \in Rows :
                  /\ IsTask(driver.allocations[r][JoinPointColumn(g) - 1])
                  /\ TaskOf(schedule, driver.allocations[r][JoinPointColumn(g) - 1]).completes_parent
                  /\ r \in ClientsOf(driver.allocations[r][JoinPointColumn(g)])


\* the executor of worker w has asked its generator for all its tuples
GeneratorDone(w) ==
    /\ executor[w].pc = "idle"
    /\ executor[w].exit \in {"exhausted", "error"}

\* C14 as stated: the schedule of one worker for an iteration-count task
\* yields floor((warmup_iterations + iterations) / N) tuples, the first
\* floor(warmup_iterations / N) of them Warmup and the others Normal.
C14_FloorOfSum ==
    \A w \in Workers :
        GeneratorDone(w) =>
            LET t == TaskOf(schedule, executor[w].task)
            IN  executor[w].it = (t.warmup_iterations + t.iterations) \div t.clients

\* C14: the schedule of one worker for an iteration-count task yields
\* floor(warmup_iterations / N) + floor(iterations / N) tuples, the first
\* floor(warmup_iterations / N) of them Warmup and the others Normal; when
\* that number is 0 the generator raises instead of yielding nothing.
C14_SumOfFloors ==
    \A w \in Workers :
        IsTask(executor[w].task) =>
            LET t == TaskOf(schedule, executor[w].task)
                warmup == t.warmup_iterations \div t.clients
                total == warmup + (t.iterations \div t.clients)
                q == lg[w].sampler.q
            IN  /\ executor[w].it <= total
                /\ executor[w].exit = "exhausted" => (executor[w].it = total /\ total > 0)
                /\ executor[w].exit = "error" => (executor[w].it = 0 /\ total = 0)
                /\ GeneratorDone(w) \/ executor[w].pc # "idle"
                /\ \A k \in 1 .. Len(q) :
                       q[k].sample_type = IF q[k].no <= warmup THEN "Warmup" ELSE "Normal"

\* the generator of a task of two clients has yielded one Warmup and one
\* Normal tuple to a worker and is exhausted
C14_Witness ==
    \E w \in Workers :
        LET t == TaskOf(schedule, executor[w].task)
            q == lg[w].sampler.q
        IN  /\ IsTask(executor[w].task)
            /\ t.clients = 2
            /\ executor[w].exit = "exhausted"
            /\ executor[w].it = 2
            /\ Len(q) = 2
            /\ q[1].sample_type = "Warmup"
            /\ q[2].sample_type = "Normal"


\* C15 as stated: every tuple of a time-period task with time_period > 0 has
\* 0 <= progress <= 1, however the clock advances between the reading of the
\* loop condition and the reading that the progress is computed from.
C15_ProgressInRange ==
    /\ 0 <= call.percent_completed[1]
    /\ call.percent_completed[1] <= call.percent_completed[2]

\* C16: every sample has service_time >= 0; with an expected dispatch offset
\* > 0 the runner is not started before task start + offset and latency >=
\* service_time; with the offset 0, latency = service_time.
C16_Latency ==
    /\ (call.pc = "stop" /\ call.expected_scheduled_time > 0) =>
           call.runner_start >= call.total_start + call.expected_scheduled_time
    /\ call.has_sample =>
           /\ call.service_time >= 0
           /\ call.sample_offset > 0 => call.latency >= call.service_time
           /\ call.sample_offset = 0 => call.latency = call.service_time

\* a sample of a throttled tuple whose runner started late: its latency is
\* larger than its service time
C16_Witness ==
    /\ call.has_sample
    /\ call.sample_offset > 0
    /\ call.service_time > 0
    /\ call.latency > call.service_time


\* the client-to-master transit delay of the JoinPointReached of w
Transit(w) == skew.lg[w].master_received_msg_at - skew.lg[w].sent_at

\* the Drive timestamp of w, translated into the master's clock
ScheduledResume(w) == skew.lg[w].client_start_timestamp - skew.lg[w].offset

\* the instant at which the wakeup of w is due, in the master's clock
DueResume(w) == skew.lg[w].wakeup_due - skew.lg[w].offset

Released(w) == skew.pc = "released" /\ skew.lg[w].pc \in {"drive", "sleeping", "resumed"}

Sleeping(w) == skew.pc = "released" /\ skew.lg[w].pc \in {"sleeping", "resumed"}

Abs(n) == IF n < 0 THEN -n ELSE n

\* C17 as stated: translated into the master's clock, the instant at which
\* worker i resumes is start_next_task minus the transit delay of its
\* JoinPointReached.
C17_ResumesAtScheduledInstant ==
    \A w \in SkewWorkers :
        Sleeping(w) => DueResume(w) = skew.start_next_task - Transit(w)

\* C17: the Drive timestamp of worker i, translated into the master's clock,
\* is start_next_task minus the transit delay of its JoinPointReached for one
\* start_next_task and any clock offset, these instants differ between two
\* workers by the difference of their transit delays, the timestamp is never
\* earlier than the reported barrier timestamp, and a worker resumes at the
\* later of that instant and its handling of the Drive message, never before.
C17_SkewCompensation ==
    /\ \A w \in SkewWorkers :
           Released(w) =>
               /\ ScheduledResume(w) = skew.start_next_task - Transit(w)
               /\ skew.lg[w].client_start_timestamp >= skew.lg[w].client_local_timestamp
    /\ \A v, w \in SkewWorkers :
           (Released(v) /\ Released(w)) =>
               Abs(ScheduledResume(v) - ScheduledResume(w)) = Abs(Transit(v) - Transit(w))
    /\ \A w \in SkewWorkers :
           /\ Sleeping(w) => DueResume(w) >= ScheduledResume(w)
           /\ skew.lg[w].pc = "resumed" => skew.lg[w].resumed_at >= DueResume(w)

\* both workers have resumed, with different clock offsets and different
\* transit delays, one of them exactly at its scheduled instant
C17_Witness ==
    /\ \A w \in SkewWorkers : skew.lg[w].pc = "resumed"
    /\ skew.lg[0].offset # skew.lg[1].offset
    /\ Transit(0) # Transit(1)
    /\ skew.lg[0].resumed_at = ScheduledResume(0)


\* C18: the Sampler never holds more samples than its capacity, and a call
\* of add leaves a full queue as it is and appends the sample at the tail of
\* any other queue.
C18_CapacityAndDrop ==
    /\ [](sampling.pc # "none" => Len(sampling.sampler.q) <= QueueMaxSize)
    /\ [][sampling'.no = sampling.no + 1 =>
            IF Len(sampling.sampler.q) = QueueMaxSize
            THEN sampling'.sampler.q = sampling.sampler.q
            ELSE sampling'.sampler.q =
                     Append(sampling.sampler.q, sampling'.offered[Len(sampling'.offered)])]_vars

\* a sample was offered to a full queue, after another one had filled it
C18_Witness ==
    /\ sampling.pc # "none"
    /\ Len(sampling.sampler.q) = QueueMaxSize
    /\ sampling.sampler.q[QueueMaxSize].no > 0
    /\ sampling.offered # <<>>
    /\ sampling.offered[Len(sampling.offered)].no > sampling.sampler.q[QueueMaxSize].no

\* C19 as stated: the list returned by one drain is the queue content at a
\* single instant of that drain.
C19_AtomicDrain ==
    sampling.pc = "returned" => sampling.returned \in sampling.contents

\* C19: the samples taken by the drains, followed by the queue, are the
\* accepted samples in their order, none lost and none twice; a drain returns
\* every sample queued when it started, first, and then those added while it
\* ran.
C19_DrainFifo ==
    /\ sampling.pc # "none" =>
           sampling.taken \o sampling.samples \o sampling.sampler.q = sampling.accepted
    /\ sampling.pc = "returned" =>
           /\ Len(sampling.at_start) <= Len(sampling.returned)
           /\ SubSeq(sampling.returned, 1, Len(sampling.at_start)) = sampling.at_start

\* a drain has returned two samples of which the second was added after the
\* first had been taken
C19_Witness ==
    /\ sampling.pc = "returned"
    /\ Len(sampling.returned) = 2
    /\ Len(sampling.at_start) = 1
    /\ sampling.returned \notin sampling.contents


RECURSIVE InFlight(_)
\* the samples of the UpdateSamples messages among msgs, in their order
InFlight(msgs) ==
    IF msgs = <<>> THEN <<>>
    ELSE (IF Head(msgs).type = "UpdateSamples" THEN Head(msgs).samples ELSE <<>>)
             \o InFlight(Tail(msgs))

C21_FailsAndStopsWorkers ==
    [][\A w \in Workers :
           (/\ MasterReceives(w, "ChildActorExited")
            /\ driver.status # "exiting"
            /\ toMaster'[w] = Tail(toMaster[w]))
           => /\ toStarter' = Append(toStarter,
                     BenchmarkFailure("Load generator has exited prematurely."))
              /\ \A v \in Workers :
                     lg[v].actor = "alive" =>
                         inbox'[v] = Append(inbox[v], ActorExitRequest)]_vars


\* the number of messages of a type among msgs
Sent(msgs, type) == Len(SelectSeq(msgs, LAMBDA msg : msg.type = type))

\* C22: once a worker has exited or its runner has failed fatally before it
\* reported the barrier of its step, no step sends BenchmarkComplete.
C22_NoCompleteAfterLoss ==
    [][hist.gone # {} =>
           Sent(toStarter', "BenchmarkComplete") = Sent(toStarter, "BenchmarkComplete")]_vars

\* a worker's runner has failed, the failure has reached the starter, and
\* the other worker has reported the last barrier
C22_Witness ==
    /\ \E w \in Workers : w \in hist.gone /\ lg[w].executor_future = "failed"
    /\ Sent(toStarter, "BenchmarkFailure") > 0
    /\ \E v \in Workers : v \notin hist.gone /\ v \in hist.reported[driver.number_of_steps]


\* C23 as stated: in every run the starter gets at most one BenchmarkFailure
\* or BenchmarkCancelled, however many failures and cancellations reach the
\* coordinator.
C23_NotifiedOnce ==
    Sent(toStarter, "BenchmarkFailure") + Sent(toStarter, "BenchmarkCancelled") <= 1


\* load generator w handles a wakeup in this step
HandlesWakeup(w) == wakeups'[w] < wakeups[w]

\* C24: a missing-parameter error of a runner ends the Executor with an
\* error; from then on the worker stays at its cell and sends no
\* JoinPointReached, the wakeup it handles next sends exactly one
\* BenchmarkFailure (after the samples still queued) and is not re-armed, and
\* the coordinator, on receiving the failure, closes the metrics store and
\* forwards the message to the starter.
C24_MissingParameter ==
    [][\A w \in Workers :
           /\ (executor[w].pc = "loop" /\ executor'[w].exit = "error") =>
                  /\ executor'[w].pc = "idle"
                  /\ lg'[w].executor_future = "failed"
           /\ lg[w].executor_future = "failed" =>
                  /\ lg'[w].executor_future = "failed"
                  /\ lg'[w].current_task_index = lg[w].current_task_index
                  /\ lg'[w].current_task = lg[w].current_task
                  /\ Sent(toMaster'[w], "JoinPointReached") <= Sent(toMaster[w], "JoinPointReached")
                  /\ wakeups[w] <= 1
                  /\ IF HandlesWakeup(w)
                     THEN /\ wakeups'[w] = 0
                          /\ Len(toMaster'[w]) > Len(toMaster[w])
                          /\ toMaster'[w][Len(toMaster'[w])].type = "BenchmarkFailure"
                          /\ Sent(toMaster'[w], "BenchmarkFailure") =
                                 Sent(toMaster[w], "BenchmarkFailure") + 1
                     ELSE /\ wakeups'[w] = wakeups[w]
                          /\ Sent(toMaster'[w], "BenchmarkFailure") <=
                                 Sent(toMaster[w], "BenchmarkFailure")
           /\ (/\ MasterReceives(w, "BenchmarkFailure")
               /\ toMaster'[w] = Tail(toMaster[w])) =>
                  /\ driver'.metrics_store = "closed"
                  /\ toStarter' = Append(toStarter, Head(toMaster[w]))]_vars

\* the runner of a worker has failed, the worker has sent its failure and has
\* no wakeup left, the coordinator has closed the store and told the starter,
\* and the other worker is still running its task
C24_Witness ==
    /\ \E w \in Workers :
           /\ executor[w].exit = "error"
           /\ ~GeneratorRaises(TaskOf(schedule, executor[w].task))
           /\ lg[w].executor_future = "failed"
           /\ lg[w].actor = "alive"
           /\ wakeups[w] = 0
           /\ toMaster[w] = <<>>
    /\ driver.metrics_store = "closed"
    /\ Sent(toStarter, "BenchmarkFailure") = 1
    /\ \E v \in Workers : lg[v].executor_future = "running"


\* C25: a transport error of a runner pushes a sample with success = false
\* and total_ops = 0 for that tuple, the Executor goes on with its schedule,
\* and no BenchmarkFailure is sent by a worker or to the starter.
C25_TransportError ==
    /\ [](/\ Sent(toStarter, "BenchmarkFailure") = 0
          /\ \A w \in Workers :
                 /\ Sent(toMaster[w], "BenchmarkFailure") = 0
                 /\ executor[w].exit # "error"
                 /\ lg[w].executor_future # "failed")
    /\ [][\A w \in Workers :
              LET pushed == hist'.pushed[w]
                  last == pushed[Len(pushed)]
              IN  (/\ executor[w].pc = "loop"
                   /\ executor'[w].pc = "check"
                   /\ ~last.success)
                  => /\ last.total_ops = 0
                     /\ last.no = executor[w].it + 1
                     /\ lg'[w].sampler.q = Append(lg[w].sampler.q, last)
                     /\ executor'[w].it = executor[w].it + 1
                     /\ lg'[w].executor_future = "running"]_vars

\* the first runner invocation of a task raised a transport error and the
\* second one of the same task returned
C25_Witness ==
    \E w \in Workers :
        /\ Len(hist.pushed[w]) = 2
        /\ ~hist.pushed[w][1].success
        /\ hist.pushed[w][2].success
        /\ hist.pushed[w][1].task = hist.pushed[w][2].task
        /\ hist.pushed[w][2].no = 2


\* C26 as stated: once the cancel flag of a worker is set while its Executor
\* is running, the worker sends BenchmarkCancelled on its next wakeup and the
\* coordinator forwards it: the starter gets a BenchmarkCancelled.
C26_CancelledReachesStarter ==
    \A w \in WorkerIds :
        (w \in Workers /\ lg[w].cancel /\ lg[w].executor_future = "running")
            ~> (Sent(toStarter, "BenchmarkCancelled") > 0)


\* C27: in a run without failures the metrics store is opened once, in the
\* step that creates and starts the workers and before any of them exists;
\* every step that post-processes samples finds it open; and it is closed
\* once, in the step that handles the last barrier, post-processes its
\* samples and sends BenchmarkComplete.
C27_StoreLifecycle ==
    /\ [](driver.metrics_store \in {"created", "open", "deleted"})
    /\ [][/\ driver'.metrics_store # driver.metrics_store =>
                \/ /\ driver.metrics_store = "created"
                   /\ driver'.metrics_store = "open"
                   /\ driver.drivers = 0
                   /\ \A w \in DOMAIN inbox : inbox[w] = <<>>
                   /\ \A w \in Workers :
                          /\ lg[w].client_id = -1
                          /\ inbox'[w] = <<StartLoadGenerator(w, driver'.allocations[w])>>
                \/ /\ driver.metrics_store = "open"
                   /\ driver'.metrics_store = "deleted"
                   /\ driver'.current_step = driver.current_step + 1
                   /\ driver'.current_step = driver.number_of_steps
                   /\ toStarter' = Append(toStarter, BenchmarkComplete)
          /\ driver'.current_step # driver.current_step => driver.metrics_store = "open"
          /\ Sent(toStarter', "BenchmarkComplete") > Sent(toStarter, "BenchmarkComplete") =>
                 /\ driver.metrics_store = "open"
                 /\ driver'.metrics_store = "deleted"]_vars

\* a run of two groups has ended: three barriers were post-processed, the
\* store is closed and BenchmarkComplete was sent
C27_Witness ==
    /\ Len(schedule) = 2
    /\ driver.current_step = 2
    /\ driver.metrics_store = "deleted"
    /\ Sent(toStarter, "BenchmarkComplete") = 1
    /\ Sent(toStarter, "TaskFinished") = 2


\* the coordinator handles a JoinPointReached of worker w in this step
HandlesReport(w) ==
    /\ MasterReceives(w, "JoinPointReached")
    /\ toMaster'[w] = Tail(toMaster[w])

\* C28 as stated: a JoinPointReached from a worker that has already reported
\* the barrier of the current step aborts the benchmark with a failure, and
\* is not counted toward releasing the barrier.
C28_ExcessReportIsFatal ==
    [][\A w \in Workers :
           (HandlesReport(w) /\ w \in driver.clients_completed_current_step) =>
               /\ Sent(toStarter', "BenchmarkFailure") > Sent(toStarter, "BenchmarkFailure")
               /\ Sent(toStarter', "BenchmarkComplete") = Sent(toStarter, "BenchmarkComplete")
               /\ driver'.current_step = driver.current_step
               /\ driver'.currently_completed = driver.currently_completed]_vars

\* the coordinator's samples when the workers' samples arrive worker by worker
WorkerByWorker == call.of[1] \o call.of[2]

PostProcessed == call.pc = "post_processed"

\* C29 as stated: the throughput points of any interleaving of the workers'
\* sample sequences are those of every other interleaving of them, here of
\* the one in which all samples of the first worker come first.
C29_InterleavingIndependent ==
    PostProcessed => call.aggregates = calculate_global_throughput(WorkerByWorker)

\* the points of kind sample_type among points
PointsOfType(points, sample_type) ==
    {i \in 1 .. Len(points) : points[i].sample_type = sample_type}

\* the last sample of the time-ordered samples of task k
LastSample(k) ==
    LET current_samples == SortedByTime(SelectSeq(call.raw_samples, LAMBDA sample : sample.task = k))
    IN  current_samples[Len(current_samples)]

ScanOf(k) == ScanOfTask(SelectSeq(call.raw_samples, LAMBDA sample : sample.task = k))

HasFinalKind(k) ==
    /\ PointsOfType(call.aggregates[k], ScanOf(k).current_sample_type) # {}
    /\ PointsOfType(ScanOf(k).points, ScanOf(k).current_sample_type) = {}
          => LET last == call.aggregates[k][Len(call.aggregates[k])]
             IN  /\ last.absolute_time = LastSample(k).absolute_time
                 /\ last.relative_time = LastSample(k).relative_time
                 /\ last.sample_type = ScanOf(k).current_sample_type

\* C30 as stated: every task that has a sample has a point of the final
\* current kind, and when the scan emitted none of that kind the last point
\* carries the timestamps of the last sample.
C30_FinalKindAlways ==
    PostProcessed => \A k \in DOMAIN call.aggregates : HasFinalKind(k)

\* C30: every task whose samples span a positive interval has a point of the
\* final current kind, and when the scan emitted none of that kind the last
\* point carries the timestamps of the last sample.
C30_FinalKind ==
    PostProcessed =>
        \A k \in DOMAIN call.aggregates : ScanOf(k).interval > 0 => HasFinalKind(k)

\* a task of a positive interval whose scan emitted no point of the final kind
C30_Witness ==
    /\ PostProcessed
    /\ \E k \in DOMAIN call.aggregates :
          /\ ScanOf(k).interval > 0
          /\ PointsOfType(ScanOf(k).points, ScanOf(k).current_sample_type) = {}
          /\ Len(call.aggregates[k]) = Len(ScanOf(k).points) + 1

\* worker w has skipped the task it is at: its complete flag is set and no
\* executor was submitted for the task
Skipped(w) ==
    /\ lg[w].actor = "alive"
    /\ IsTask(lg[w].current_task)
    /\ lg[w].complete
    /\ lg[w].executor_future = "None"

\* C31 as stated: a worker that skips a task because its complete flag is
\* set goes on through the remaining cells and eventually reports the closing
\* barrier of the group.
C31_SkipThenReports ==
    \A w \in WorkerIds :
        (w \in Workers /\ Skipped(w)) ~> (w \in Workers /\ at_joinpoint(lg[w]))

\* worker w has sent JoinPointReached for the join point it is at and has
\* not resumed from it
AtBarrier(w) ==
    /\ IsJoinPoint(lg[w].current_task)
    /\ \/ w \in hist.reported[lg[w].current_task.id]
       \/ \E i \in 1 .. Len(toMaster[w]) :
              toMaster[w][i] = JoinPointReached(w, lg[w].current_task)

C32_State ==
    \A w \in Workers :
        AtBarrier(w) =>
            /\ executor[w].pc = "idle"
            /\ lg[w].executor_future = "None"
            /\ lg[w].sampler = NoSampler
            /\ ~lg[w].cancel
            /\ ~lg[w].complete

C32_Step ==
    \A w \in Workers :
        (/\ AtBarrier(w)
         /\ inbox[w] # <<>>
         /\ Head(inbox[w]) = CompleteCurrentTask
         /\ inbox'[w] = Tail(inbox[w]))
            => ~lg'[w].complete /\ lg'[w].current_task = lg[w].current_task

\* C32: while a worker has sent JoinPointReached for a barrier and has not
\* resumed from it, no executor of it is pending or running, its sampler is
\* drained and dropped and its cancel and complete flags are clear; a
\* CompleteCurrentTask that it receives in that state leaves the complete
\* flag clear.
C32_AtBarrier == [](C32_State) /\ [][C32_Step]_vars

\* a worker that ran the completing task of a group is at the closing
\* barrier and has received the CompleteCurrentTask sent for that barrier
C32_Witness ==
    \E w \in Workers :
        /\ AtBarrier(w)
        /\ lg[w].current_task.id > 0
        /\ \E i \in 1 .. Len(lg[w].current_task.clients_executing_completing_task) :
               lg[w].current_task.clients_executing_completing_task[i] = w
        /\ hist.cct[w][lg[w].current_task.id] > 0
        /\ \A i \in 1 .. Len(inbox[w]) : inbox[w][i] # CompleteCurrentTask
        /\ ~lg[w].complete

\* the step starts the benchmark: it opens the metrics store, sets the
\* allocations or the load generators, or sends a StartLoadGenerator
StartsBenchmark ==
    \/ driver'.metrics_store = "open" /\ driver.metrics_store # "open"
    \/ driver'.drivers # driver.drivers
    \/ driver'.allocations # driver.allocations
    \/ \E w \in Workers :
           Sent(inbox'[w], "StartLoadGenerator") > Sent(inbox[w], "StartLoadGenerator")

C33_State ==
    /\ (\/ driver.drivers > 0
        \/ driver.metrics_store = "open"
        \/ \E w \in Workers : lg[w].client_id # -1 \/ inbox[w] # <<>>)
           => call.handled >= call.hosts
    /\ call.failed > 0 =>
           /\ driver.drivers = 0
           /\ \A w \in Workers : lg[w] = InitLoadGenerator /\ inbox[w] = <<>>

C33_Step ==
    /\ StartsBenchmark =>
           /\ call.handled = call.hosts - 1
           /\ call'.handled = call.hosts
           /\ driver.drivers = 0
           /\ driver.metrics_store = "created"
           /\ driver'.metrics_store = "open"
           /\ driver'.drivers = AllocatorClients(schedule)
           /\ \A w \in Workers :
                  inbox'[w] = <<StartLoadGenerator(w, AllocatorAllocations(schedule)[w])>>
    /\ (call.handled >= call.hosts /\ call'.handled > call.handled) =>
           /\ ~StartsBenchmark
           /\ \/ Sent(toStarter', "BenchmarkFailure") = Sent(toStarter, "BenchmarkFailure") + 1
              \/ driver.metrics_store = "deleted"

\* C33: with H track preparators the coordinator opens the metrics store,
\* allocates and creates and starts the load generators in the handler of
\* the H-th TrackPrepared and in no other step; when a preparator has failed
\* no load generator is ever created; the handler of a TrackPrepared beyond
\* the H-th raises and does not start the benchmark again.
C33_StartupGate == [](C33_State) /\ [][C33_Step]_vars

\* the benchmark was started by the last of two replies, and a further
\* TrackPrepared has been handled
C33_Witness ==
    /\ call.pc = "prepare"
    /\ call.hosts = 2
    /\ call.handled = 3
    /\ driver.drivers > 0
    /\ driver.status = "exiting"
    /\ Sent(toStarter, "BenchmarkFailure") = 1

\* C34: once complete is set while the executor runs, at whichever point of
\* its loop, the executor invokes the runner and adds a sample at most once
\* more and does not start a further iteration after that sample; once
\* cancel is set the executor invokes the runner at most once more, and only
\* when it had passed the check of cancel already.
C34_OneMoreAfterFlag ==
    call.pc # "none" =>
        /\ call.added_after_complete <= 1
        /\ call.invoked_after_complete <= 1
        /\ call.added_after_complete = 1 =>
               call.pc \in {"complete", "finally", "done"}
        /\ call.invoked_after_cancel <= 1
        /\ call.invoked_after_cancel = 1 => call.cancel_set_at = "run"

\* complete was set between the reading of complete for the progress and
\* the adding of the sample, cancel after the check of cancel; the executor
\* has returned with tuples of the schedule left
C34_Witness ==
    /\ call.pc = "done"
    /\ call.complete_set_at = "add"
    /\ call.added_after_complete = 1
    /\ call.cancel_set_at = "run"
    /\ call.invoked_after_cancel = 1
    /\ call.tuples > 0

\* the coordinator post-processes the samples of the step in this step
PostProcessesStep == driver'.current_step = driver.current_step + 1

\* C35 as stated: when the coordinator post-processes a step, its
\* raw_samples hold every sample that the worker's Samplers accepted during
\* the step exactly once, and raw_samples is empty after the step.
C35_NoSampleLost ==
    [][PostProcessesStep =>
          /\ \A w \in Workers : SamplesOf(driver.raw_samples, w) = hist.pushed[w]
          /\ driver'.raw_samples = <<>>]_vars

\* the complete flag of worker w, which is at a task of group g, is due to
\* that group: the worker's executor has finished a task of the group that
\* completes its parent, or the coordinator has sent the worker a
\* CompleteCurrentTask for the closing barrier of the group
CompleteDueTo(w, g) ==
    \/ hist.cct[w][g] > 0
    \/ /\ executor[w].pc = "idle"
       /\ IsTask(executor[w].task)
       /\ executor[w].task.group = g
       /\ TaskOf(schedule, executor[w].task).completes_parent

\* C36: a worker whose complete flag is set while it is at a task of a step
\* has finished a completing task of that step or was sent a
\* CompleteCurrentTask for that step; no flag of an earlier step is left
\* when a task of the next step is reached.
C36_NoLeak ==
    \A w \in Workers :
        (lg[w].complete /\ IsTask(lg[w].current_task))
            => CompleteDueTo(w, lg[w].current_task.group)

\* a worker that was sent a CompleteCurrentTask for the first step runs a
\* task of the second step with its complete flag clear
C36_Witness ==
    \E w \in Workers :
        /\ IsTask(lg[w].current_task)
        /\ lg[w].current_task.group = 2
        /\ hist.cct[w][1] > 0
        /\ \A i \in 1 .. Len(inbox[w]) : inbox[w][i] # CompleteCurrentTask
        /\ ~lg[w].complete
        /\ executor[w].pc = "check"

\* schedule_for(self.track, task, self.client_id): the client index that
\* drive() passes is the worker's own id
schedule_for_client_index(g) == g.client_id

\* C37 as stated: whenever a worker has created the schedule of a task, the
\* client index it passed to schedule_for lies in [0, task.clients).
C37_ClientIndexInRange ==
    \A w \in Workers :
        executor[w].pc # "idle" =>
            schedule_for_client_index(lg[w])
                \in 0 .. TaskOf(schedule, executor[w].task).clients - 1

\* between the handlers of the coordinator the counter of the barrier equals
\* the number of recorded client ids and stays below the number of workers
C38_State ==
    driver.drivers > 0 =>
        /\ driver.currently_completed = Cardinality(driver.clients_completed_current_step)
        /\ driver.currently_completed \in 0 .. driver.drivers - 1
        /\ driver.clients_completed_current_step \subseteq 0 .. driver.drivers - 1

\* the coordinator releases a barrier in this step: it handles the
\* JoinPointReached of w and goes on to the next step
ReleasesBarrier(w) ==
    /\ toMaster[w] # <<>>
    /\ Head(toMaster[w]).type = "JoinPointReached"
    /\ toMaster'[w] = Tail(toMaster[w])
    /\ driver'.current_step = driver.current_step + 1

\* the client ids recorded when the JoinPointReached of w has been recorded
RecordedWith(w) ==
    driver.clients_completed_current_step \cup {Head(toMaster[w]).client_id}

C38_Step ==
    \A w \in Workers :
        ReleasesBarrier(w) => RecordedWith(w) = 0 .. driver.drivers - 1

\* C38: between message handlers currently_completed equals the number of
\* distinct client ids recorded in clients_completed_current_step and lies
\* in [0, N-1]; when a barrier is released, every worker index 0..N-1 is
\* recorded.
C38_BarrierCount == [](C38_State) /\ [][C38_Step]_vars

\* after the release of a barrier, all workers but one have reported the
\* next barrier
C38_Witness ==
    /\ driver.drivers >= 2
    /\ driver.current_step >= 0
    /\ driver.currently_completed = driver.drivers - 1
    /\ Cardinality(driver.clients_completed_current_step) = driver.drivers - 1

\* worker w has reached the last cell of its row, the final barrier
AtFinalBarrier(w) ==
    /\ Len(lg[w].tasks) > 0
    /\ lg[w].current_task_index = Len(lg[w].tasks)

\* the index stays inside the row, and a worker at the final barrier has no
\* Drive pending or accepted
C39_State ==
    \A w \in Workers :
        /\ lg[w].current_task_index <= Len(lg[w].tasks)
        /\ AtFinalBarrier(w) =>
               /\ IsJoinPoint(lg[w].current_task)
               /\ ~lg[w].start_driving
               /\ \A i \in 1 .. Len(inbox[w]) : inbox[w][i] # Drive

\* every advance starts before the end of the row and stops at the cell it
\* has read, which is a Task or a JoinPoint
C39_Step ==
    \A w \in Workers :
        lg'[w].current_task_index # lg[w].current_task_index =>
            /\ lg[w].current_task_index < Len(lg'[w].tasks)
            /\ lg'[w].current_task_index \in 1 .. Len(lg'[w].tasks)
            /\ lg'[w].current_task = lg'[w].tasks[lg'[w].current_task_index]
            /\ IsTask(lg'[w].current_task) \/ IsJoinPoint(lg'[w].current_task)

\* C39: a worker never reads past the end of its row: current_task_index
\* is at most the length of the row, the skipping of None cells stops at a
\* Task or a JoinPoint, and after the final barrier the worker receives no
\* Drive and advances no further.
C39_InsideRow == [](C39_State) /\ [][C39_Step]_vars

\* a worker whose row holds a None cell has skipped it and stands at the
\* final barrier, which the coordinator has released
C39_Witness ==
    \E w \in Workers :
        /\ AtFinalBarrier(w)
        /\ \E i \in 1 .. Len(lg[w].tasks) : IsNone(lg[w].tasks[i])
        /\ finished(driver)
        /\ Sent(toStarter, "BenchmarkComplete") > 0

\* the coordinator handles a BenchmarkFailure or a BenchmarkCancelled of
\* worker w in this step
HandlesFailure(w) ==
    /\ toMaster[w] # <<>>
    /\ Head(toMaster[w]).type \in {"BenchmarkFailure", "BenchmarkCancelled"}
    /\ toMaster'[w] = Tail(toMaster[w])

\* C40 as stated: the handling of a BenchmarkFailure or BenchmarkCancelled
\* never raises in close() and never closes a metrics store that is
\* already closed.
C40_CloseSafe ==
    [][\A w \in Workers :
          HandlesFailure(w) =>
              /\ ~close_raises(driver)
              /\ driver.metrics_store # "closed"]_vars

====
